---- MODULE Spec2Model ----
(***************************************************************************)
(* Model of the data-cleaning pipeline of clean-datapro                    *)
(* (src/backend/src/cleaner.py).                                           *)
(*                                                                         *)
(* A cell value is a record [k, n, d, s]:                                  *)
(*   k = "null"   None / NaN / NaT                                         *)
(*   k = "int"    Python/NumPy integer  n       (d = 1)                    *)
(*   k = "float"  floating point number n/d     (kept as a reduced ratio)  *)
(*   k = "bool"   True (n = 1) / False (n = 0)                             *)
(*   k = "date"   timestamp, day number n                                  *)
(*   k = "text"   str, s is its sequence of characters                     *)
(*   k = "list"   Python list of n non-null elements (an unhashable cell)  *)
(* A Series is [name, dtype, cells]; a DataFrame is [class, columns, index] *)
(* where index holds the row labels (drop_duplicates keeps them); an       *)
(* argument of another class is a record of the same shape.                *)
(***************************************************************************)
EXTENDS Integers, Sequences, FiniteSets, TLC

VARIABLES
    val, val_missing, cell_pc,          \* one call of _is_missing_value
    series, s_numeric, s_filled, col_pc, \* one call of _is_numeric_column / _fill_column
    df, drop_dup, cleaned, summary,     \* calls of clean_dataframe
    outcome, calls, work, df_after, stages,
    sort_rows, sort_result, sort_pc,    \* one sort of the rows of a summary
    MONGODB_URI, MongoClient, _CLIENT,  \* module state of config.py
    clients_created, clean_runs,        \* clients made, documents of the store
    request, response, requests,        \* requests to POST /process
    replaced, replace_pc,               \* one call of _replace_placeholders
    profiles, analyze_pc,               \* one call of analyze_missing_summary
    thread_pc, thread_new, thread_got,  \* threads calling get_mongo_client
    thread_calls, handed_out

vars == <<val, val_missing, cell_pc, series, s_numeric, s_filled, col_pc,
          df, drop_dup, cleaned, summary, outcome, calls, work, df_after, stages,
          sort_rows, sort_result, sort_pc,
          MONGODB_URI, MongoClient, _CLIENT, clients_created, clean_runs,
          request, response, requests, replaced, replace_pc,
          profiles, analyze_pc, thread_pc, thread_new, thread_got, thread_calls,
          handed_out>>

cellVars == <<val, val_missing, cell_pc>>
colVars == <<series, s_numeric, s_filled, col_pc>>
dfVars == <<df, drop_dup, cleaned, summary, outcome, calls, work, df_after, stages>>
sortVars == <<sort_rows, sort_result, sort_pc>>
replaceVars == <<replaced, replace_pc>>
analyzeVars == <<profiles, analyze_pc>>
clientVars == <<thread_pc, thread_new, thread_got, thread_calls, handed_out>>
uploadVars == <<MONGODB_URI, MongoClient, _CLIENT, clients_created, clean_runs,
                request, response, requests>>

-----------------------------------------------------------------------------
(* Bounds of the model *)

MaxTextLen == 3
MaxColLen == 5
MaxRows == 3
MaxCalls == 2
MaxSortRows == 3
MaxSortFree == 2
MaxIssues == 3
MaxRequests == 2
MaxThreads == 2
MaxThreadCalls == 2

-----------------------------------------------------------------------------
(* Cell values *)

Null == [k |-> "null", n |-> 0, d |-> 1, s |-> <<>>]
IntV(i) == [k |-> "int", n |-> i, d |-> 1, s |-> <<>>]
BoolV(i) == [k |-> "bool", n |-> i, d |-> 1, s |-> <<>>]
DateV(i) == [k |-> "date", n |-> i, d |-> 1, s |-> <<>>]
TextV(chars) == [k |-> "text", n |-> 0, d |-> 1, s |-> chars]
ListV(len) == [k |-> "list", n |-> len, d |-> 1, s |-> <<>>]

Abs(i) == IF i < 0 THEN -i ELSE i

\* <<Op(seq[1]), ..., Op(seq[Len(seq)])>>
RECURSIVE MapSeq(_, _)
MapSeq(Op(_), seq) ==
    IF seq = <<>> THEN <<>> ELSE <<Op(Head(seq))>> \o MapSeq(Op, Tail(seq))

RECURSIVE GCD(_, _)
GCD(a, b) == IF b = 0 THEN a ELSE GCD(b, a % b)

\* the floating point number num/den, den > 0, as a reduced ratio
FloatV(num, den) ==
    LET g == GCD(Abs(num), den)
    IN  [k |-> "float", n |-> num \div g, d |-> den \div g, s |-> <<>>]

IsNum(v) == v.k \in {"int", "float"}

NumLess(a, b) == a.n * b.d < b.n * a.d

-----------------------------------------------------------------------------
(* str.lower() and str.strip() *)

ToLower ==
    [A |-> "a", B |-> "b", C |-> "c", D |-> "d", E |-> "e", F |-> "f",
     G |-> "g", H |-> "h", I |-> "i", J |-> "j", K |-> "k", L |-> "l",
     M |-> "m", N |-> "n", O |-> "o", P |-> "p", Q |-> "q", R |-> "r",
     S |-> "s", T |-> "t", U |-> "u", V |-> "v", W |-> "w", X |-> "x",
     Y |-> "y", Z |-> "z"]

UpperCase == DOMAIN ToLower

LowerChar(c) == IF c \in UpperCase THEN ToLower[c] ELSE c

Lower(chars) == MapSeq(LowerChar, chars)

Whitespace == {" ", "\t", "\n"}

RECURSIVE LStrip(_)
LStrip(chars) ==
    IF chars # <<>> /\ Head(chars) \in Whitespace THEN LStrip(Tail(chars)) ELSE chars

RECURSIVE RStrip(_)
RStrip(chars) ==
    IF chars # <<>> /\ chars[Len(chars)] \in Whitespace
    THEN RStrip(SubSeq(chars, 1, Len(chars) - 1))
    ELSE chars

Strip(chars) == RStrip(LStrip(chars))

-----------------------------------------------------------------------------
(* Missing / placeholder detection *)

PLACEHOLDER_VALUES ==
    { <<"u","n","k","n","o","w","n">>,
      <<"n","/","a">>,
      <<"n","a">>,
      <<"n","a","n">>,
      <<"n","o","n","e">>,
      <<"n","u","l","l">>,
      <<"e","r","r","o","r">>,
      <<"m","i","s","s","i","n","g">>,
      <<"u","n","d","e","f","i","n","e","d">>,
      <<"u","n","a","v","a","i","l","a","b","l","e">>,
      <<>>,
      <<"-">>,
      <<"-","-">>,
      <<"?">>,
      <<"n",".","a",".">>,
      <<"#","n","/","a">> }

\* pd.isna(val)
IsNa(v) == v.k = "null"

\* pd.isna(val) of a list is an array, and "if" on an array of two or more
\* elements raises ValueError
IsMissingRaises(v) == v.k = "list" /\ v.n >= 2

\* s.apply(lambda x: _is_missing_value(x)) raises
ApplyIsMissingRaises(cells) == \E i \in 1..Len(cells) : IsMissingRaises(cells[i])

\* the check without strip()
IsMissingNoStrip(v) ==
    \/ IsNa(v)
    \/ v.k = "text" /\ Lower(v.s) \in PLACEHOLDER_VALUES

\* the check without lower()
IsMissingNoLower(v) ==
    \/ IsNa(v)
    \/ v.k = "text" /\ Strip(v.s) \in PLACEHOLDER_VALUES

_is_missing_value(v) ==
    \/ IsNa(v)
    \/ v.k = "text" /\ Strip(Lower(v.s)) \in PLACEHOLDER_VALUES

-----------------------------------------------------------------------------
(* float(val): Python's numeric parse of a cell *)

Digits == <<"0", "1", "2", "3", "4", "5", "6", "7", "8", "9">>

IsDigit(c) == \E i \in 1..Len(Digits) : Digits[i] = c

DigitValue(c) == (CHOOSE i \in 1..Len(Digits) : Digits[i] = c) - 1

Unsigned(chars) ==
    IF chars # <<>> /\ Head(chars) \in {"-", "+"} THEN Tail(chars) ELSE chars

\* an optional sign, then digits with at most one decimal point
IsNumeral(chars) ==
    LET body == Unsigned(chars)
    IN  /\ \A i \in 1..Len(body) : IsDigit(body[i]) \/ body[i] = "."
        /\ \E i \in 1..Len(body) : IsDigit(body[i])
        /\ Cardinality({i \in 1..Len(body) : body[i] = "."}) <= 1

HasPoint(chars) == \E i \in 1..Len(chars) : chars[i] = "."

RECURSIVE DigitsValue(_)
DigitsValue(chars) ==
    IF chars = <<>> THEN 0
    ELSE 10 * DigitsValue(SubSeq(chars, 1, Len(chars) - 1))
         + DigitValue(chars[Len(chars)])

RECURSIVE Pow10(_)
Pow10(e) == IF e = 0 THEN 1 ELSE 10 * Pow10(e - 1)

\* the value of a numeral, as [n, d] with d a power of ten
NumeralValue(chars) ==
    LET body == Unsigned(chars)
        point == IF HasPoint(body)
                 THEN CHOOSE i \in 1..Len(body) : body[i] = "."
                 ELSE Len(body) + 1
        digits == SelectSeq(body, IsDigit)
        sign == IF chars # <<>> /\ Head(chars) = "-" THEN -1 ELSE 1
    IN  [n |-> sign * DigitsValue(digits),
         d |-> Pow10(IF HasPoint(body) THEN Len(body) - point ELSE 0)]

\* float(val) does not raise ValueError / TypeError
FloatParses(v) ==
    CASE v.k \in {"int", "float", "bool"} -> TRUE
      [] v.k = "text" -> IsNumeral(Strip(v.s))
      [] OTHER -> FALSE

-----------------------------------------------------------------------------
(* Series *)

Series(name, dtype, cells) == [name |-> name, dtype |-> dtype, cells |-> cells]

\* seq restricted to the positions in keep, order preserved
RECURSIVE AtPositions(_, _)
AtPositions(seq, keep) ==
    IF seq = <<>> THEN <<>>
    ELSE LET front == AtPositions(SubSeq(seq, 1, Len(seq) - 1), keep)
         IN  IF Len(seq) \in keep THEN Append(front, seq[Len(seq)]) ELSE front

Count(seq, v) == Cardinality({i \in 1..Len(seq) : seq[i] = v})

NonMissing(cells) ==
    AtPositions(cells, {i \in 1..Len(cells) : ~_is_missing_value(cells[i])})

DropNa(cells) == AtPositions(cells, {i \in 1..Len(cells) : ~IsNa(cells[i])})

NumericCount(cells) == Cardinality({i \in 1..Len(cells) : FloatParses(cells[i])})

\* the threshold as >= 0.8
IsNumericAtLeast(col) ==
    LET non_missing == NonMissing(col.cells)
    IN  IF non_missing = <<>> THEN FALSE
        ELSE NumericCount(non_missing) * 10 >= 8 * Len(non_missing)

\* numeric_count / len(non_missing) > 0.8
_is_numeric_column(col) ==
    LET non_missing == NonMissing(col.cells)
    IN  IF non_missing = <<>> THEN FALSE
        ELSE NumericCount(non_missing) * 10 > 8 * Len(non_missing)

-----------------------------------------------------------------------------
(* Order of values, as Series.median / Series.min / Series.mode sort them *)

\* the characters of the model in code point order
CharOrder ==
    <<"\t", "\n", " ", "#", "-", ".", "/",
      "0", "1", "2", "3", "4", "5", "6", "7", "8", "9", "?",
      "A", "K", "N", "U", "X", "Y", "a", "k", "n", "o", "u", "w", "x", "y">>

CharCode(c) == CHOOSE i \in 1..Len(CharOrder) : CharOrder[i] = c

RECURSIVE TextLess(_, _)
TextLess(a, b) ==
    IF b = <<>> THEN FALSE
    ELSE IF a = <<>> THEN TRUE
    ELSE IF Head(a) = Head(b) THEN TextLess(Tail(a), Tail(b))
    ELSE CharCode(Head(a)) < CharCode(Head(b))

ValLess(a, b) ==
    IF a.k = "text" /\ b.k = "text" THEN TextLess(a.s, b.s) ELSE NumLess(a, b)

\* the cells in ascending order
RECURSIVE SortCells(_)
SortCells(cells) ==
    IF cells = <<>> THEN <<>>
    ELSE LET least == CHOOSE i \in 1..Len(cells) :
                        \A j \in 1..Len(cells) : ~ValLess(cells[j], cells[i])
         IN  <<cells[least]>> \o SortCells(AtPositions(cells, (1..Len(cells)) \ {least}))

RECURSIVE RatSum(_)
RatSum(cells) ==
    IF cells = <<>> THEN [n |-> 0, d |-> 1]
    ELSE LET rest == RatSum(Tail(cells))
             first == Head(cells)
         IN  [n |-> first.n * rest.d + rest.n * first.d, d |-> first.d * rest.d]

\* the arithmetic mean, where the median is meant
Mean(present) ==
    LET total == RatSum(present)
    IN  FloatV(total.n, total.d * Len(present))

\* Series.median() of the non-null cells: the middle one, or the mean of the
\* two middle ones
Median(present) ==
    LET sorted == SortCells(present)
        len == Len(sorted)
        lo == sorted[len \div 2]
        hi == sorted[len \div 2 + 1]
    IN  IF len % 2 = 1
        THEN FloatV(hi.n, hi.d)
        ELSE FloatV(lo.n * hi.d + hi.n * lo.d, 2 * lo.d * hi.d)

\* the greatest value, where the least is meant
Max(present) == SortCells(present)[Len(present)]

\* Series.min()
Min(present) == SortCells(present)[1]

\* the least frequent values, where the most frequent are meant
LeastFrequentSeries(present) ==
    LET rare == {i \in 1..Len(present) :
                   /\ \A j \in 1..Len(present) :
                         Count(present, present[i]) <= Count(present, present[j])
                   /\ \A j \in 1..(i - 1) : present[j] # present[i]}
    IN  SortCells(AtPositions(present, rare))

\* the most frequent values in the order they are first met, unsorted
ModeInRowOrder(present) ==
    LET top == {i \in 1..Len(present) :
                  /\ \A j \in 1..Len(present) :
                        Count(present, present[j]) <= Count(present, present[i])
                  /\ \A j \in 1..(i - 1) : present[j] # present[i]}
    IN  AtPositions(present, top)

\* Series.mode(dropna=True): the most frequent values, sorted
ModeSeries(present) ==
    LET top == {i \in 1..Len(present) :
                  /\ \A j \in 1..Len(present) :
                        Count(present, present[j]) <= Count(present, present[i])
                  /\ \A j \in 1..(i - 1) : present[j] # present[i]}
    IN  SortCells(AtPositions(present, top))

-----------------------------------------------------------------------------
(* _fill_column *)

Unknown == TextV(<<"U", "n", "k", "n", "o", "w", "n">>)

is_numeric_dtype(dtype) == dtype \in {"int64", "float64"}

is_datetime64_any_dtype(dtype) == dtype = "datetime64"

\* the cells that fail float() masked with the missing ones
MaskUnparsed(cells) ==
    MapSeq(LAMBDA c : IF _is_missing_value(c) \/ ~FloatParses(c) THEN Null ELSE c, cells)

\* s[mask] = np.nan
MaskMissing(cells) ==
    MapSeq(LAMBDA c : IF _is_missing_value(c) THEN Null ELSE c, cells)

FillNa(cells, v) == MapSeq(LAMBDA c : IF IsNa(c) THEN v ELSE c, cells)

NumericFill(present) == IF present = <<>> THEN FloatV(0, 1) ELSE Median(present)

\* s.mode(dropna=True) raises TypeError on an unhashable cell
ModeRaises(present) == \E i \in 1..Len(present) : present[i].k = "list"

ObjectFill(present) ==
    IF present = <<>> THEN Unknown
    ELSE IF ModeRaises(present) THEN Unknown
    ELSE LET mode == ModeSeries(present)
         IN  IF mode # <<>> THEN mode[1] ELSE Unknown

_fill_column(col) ==
    LET cells == MaskMissing(col.cells)
        present == DropNa(cells)
    IN  IF is_numeric_dtype(col.dtype)
        THEN Series(col.name, col.dtype, FillNa(cells, NumericFill(present)))
        ELSE IF is_datetime64_any_dtype(col.dtype)
        THEN IF present = <<>>
             THEN Series(col.name, col.dtype, cells)
             ELSE Series(col.name, col.dtype, FillNa(cells, Min(present)))
        ELSE Series(col.name, col.dtype, FillNa(cells, ObjectFill(present)))

-----------------------------------------------------------------------------
(* DataFrame *)

DataFrame(columns, index) ==
    [class |-> "DataFrame", columns |-> columns, index |-> index]

\* an argument that is no DataFrame: None, a dict, a list
NotDataFrame(class) == [class |-> class, columns |-> <<>>, index |-> <<>>]

\* the type check left out
IsAnyObject(x) == TRUE

\* isinstance(df, pd.DataFrame)
IsDataFrame(x) == x.class = "DataFrame"

NRows(t) == Len(t.index)

NCols(t) == Len(t.columns)

Row(t, i) == MapSeq(LAMBDA col : col.cells[i], t.columns)

MissingCount(cells) == Cardinality({i \in 1..Len(cells) : _is_missing_value(cells[i])})

NaCount(cells) == Cardinality({i \in 1..Len(cells) : IsNa(cells[i])})

\* the number of cells of a sequence for which float(val) raises
ParseFailures(cells) == Cardinality({i \in 1..Len(cells) : ~FloatParses(cells[i])})

RECURSIVE Sum(_)
Sum(seq) == IF seq = <<>> THEN 0 ELSE Head(seq) + Sum(Tail(seq))

\* placeholder replacement left out
KeepPlaceholders(t) == t

\* str cells of object columns that are placeholders become NaN
_replace_placeholders(t) ==
    DataFrame(
        MapSeq(LAMBDA col :
                  IF col.dtype = "object"
                  THEN Series(col.name, col.dtype,
                              MapSeq(LAMBDA c :
                                        IF c.k = "text" /\ _is_missing_value(c)
                                        THEN Null
                                        ELSE c,
                                     col.cells))
                  ELSE col,
               t.columns),
        t.index)

\* DataFrame restricted to the row positions in keep
TakeRows(t, keep) ==
    DataFrame(
        MapSeq(LAMBDA col : Series(col.name, col.dtype, AtPositions(col.cells, keep)),
               t.columns),
        AtPositions(t.index, keep))

\* keep="last" instead of keep="first"
DropLastOfEqualRows(t) ==
    TakeRows(t, {i \in 1..NRows(t) : \A j \in (i + 1)..NRows(t) : Row(t, j) # Row(t, i)})

\* duplicates decided on the first column alone
DropRowsEqualInFirstColumn(t) ==
    TakeRows(t, {i \in 1..NRows(t) :
                    \A j \in 1..(i - 1) : Row(t, j)[1] # Row(t, i)[1]})

\* a row dropped only when it repeats the row right before it
DropAdjacentDuplicates(t) ==
    TakeRows(t, {i \in 1..NRows(t) : i = 1 \/ Row(t, i - 1) # Row(t, i)})

\* DataFrame.drop_duplicates(): keep="first", NaN equal to NaN
drop_duplicates(t) ==
    TakeRows(t, {i \in 1..NRows(t) : \A j \in 1..(i - 1) : Row(t, j) # Row(t, i)})

\* pd.to_numeric(s, errors="coerce") of one cell
ToNumericCell(v) ==
    IF v.k = "text" /\ FloatParses(v)
    THEN LET chars == Strip(v.s)
             value == NumeralValue(chars)
         IN  IF HasPoint(chars) THEN FloatV(value.n, value.d) ELSE IntV(value.n)
    ELSE IF IsNum(v) THEN v
    ELSE Null

\* pd.to_numeric(s, errors="coerce"): int64 when every cell is an integer,
\* float64 otherwise
to_numeric(col) ==
    LET converted == MapSeq(ToNumericCell, col.cells)
    IN  IF \A i \in 1..Len(converted) : converted[i].k = "int"
        THEN Series(col.name, "int64", converted)
        ELSE Series(col.name, "float64",
                    MapSeq(LAMBDA c : IF IsNum(c) THEN FloatV(c.n, c.d) ELSE Null,
                           converted))

\* every text column coerced, flagged or not
CoerceAllText(t, numeric_cols_to_fix) ==
    DataFrame(
        MapSeq(LAMBDA col : IF col.dtype = "object" THEN to_numeric(col) ELSE col,
               t.columns),
        t.index)

\* the columns to coerce classified again on the table being coerced
CoerceReclassified(t, numeric_cols_to_fix) ==
    DataFrame(
        MapSeq(LAMBDA col :
                  IF col.dtype = "object" /\ _is_numeric_column(col)
                  THEN to_numeric(col)
                  ELSE col,
               t.columns),
        t.index)

\* a flagged text column left as it is when one of its cells fails the parse
CoerceIfAllParse(t, numeric_cols_to_fix) ==
    DataFrame(
        MapSeq(LAMBDA col :
                  IF /\ col.dtype = "object"
                     /\ col.name \in numeric_cols_to_fix
                     /\ \A i \in 1..Len(col.cells) :
                           IsNa(col.cells[i]) \/ FloatParses(col.cells[i])
                  THEN to_numeric(col)
                  ELSE col,
               t.columns),
        t.index)

\* the coercion loop of clean_dataframe
CoerceNumeric(t, numeric_cols_to_fix) ==
    DataFrame(
        MapSeq(LAMBDA col :
                  IF col.dtype = "object" /\ col.name \in numeric_cols_to_fix
                  THEN to_numeric(col)
                  ELSE col,
               t.columns),
        t.index)

\* the imputation loop of clean_dataframe
FillColumns(t) ==
    DataFrame(MapSeq(_fill_column, t.columns), t.index)

\* the columns clean_dataframe classifies numeric
NumericColsToFix(t) ==
    {t.columns[c].name : c \in {x \in 1..NCols(t) : _is_numeric_column(t.columns[x])}}

\* the count of issues of the original data (first loop of clean_dataframe)
TotalIssuesOriginal(t, numeric_cols_to_fix) ==
    Sum(MapSeq(LAMBDA col :
                  MissingCount(col.cells)
                  + IF col.name \in numeric_cols_to_fix /\ col.dtype = "object"
                    THEN ParseFailures(NonMissing(col.cells))
                    ELSE 0,
               t.columns))

\* the nulls counted alone, without the cells that fail the parse
NaCountTotal(working, numeric_cols_to_fix) ==
    Sum(MapSeq(LAMBDA col : NaCount(col.cells), working.columns))

\* the count of issues after placeholder replacement (second loop), the
\* value that missing_before keeps
TotalIssuesWorking(working, numeric_cols_to_fix) ==
    Sum(MapSeq(LAMBDA col :
                  NaCount(col.cells)
                  + IF col.name \in numeric_cols_to_fix
                    THEN ParseFailures(DropNa(col.cells))
                    ELSE 0,
               working.columns))

\* working.apply(lambda col: col.apply(_is_missing_value)).sum().sum()
MissingAfter(working) ==
    Sum(MapSeq(LAMBDA col : MissingCount(col.cells), working.columns))

-----------------------------------------------------------------------------
(* str(v), which analyze_missing_summary uses to tell sample values apart *)

RECURSIVE NatChars(_)
NatChars(i) ==
    IF i < 10 THEN <<Digits[i + 1]>>
    ELSE Append(NatChars(i \div 10), Digits[(i % 10) + 1])

\* i written with exactly width digits
RECURSIVE PaddedChars(_, _)
PaddedChars(i, width) ==
    IF width = 0 THEN <<>>
    ELSE Append(PaddedChars(i \div 10, width - 1), Digits[(i % 10) + 1])

\* the number of decimals of the reduced ratio with denominator den
RECURSIVE Decimals(_, _)
Decimals(den, e) == IF Pow10(e) % den = 0 THEN e ELSE Decimals(den, e + 1)

FloatChars(v) ==
    LET e == Decimals(v.d, 0)
        scaled == (Abs(v.n) * Pow10(e)) \div v.d
        sign == IF v.n < 0 THEN <<"-">> ELSE <<>>
    IN  sign \o NatChars(scaled \div Pow10(e)) \o <<".">>
        \o (IF e = 0 THEN <<"0">> ELSE PaddedChars(scaled % Pow10(e), e))

StrOf(v) ==
    CASE v.k = "text" -> v.s
      [] v.k = "int" -> (IF v.n < 0 THEN <<"-">> ELSE <<>>) \o NatChars(Abs(v.n))
      [] v.k = "float" -> FloatChars(v)
      [] v.k = "date" -> <<"2", "0", "2", "0", "-", "0", "1", "-">> \o PaddedChars(v.n, 2)
      [] OTHER -> <<"n", "a", "n">>

-----------------------------------------------------------------------------
(* analyze_missing_summary *)

top_values_default == 3

\* round(missing / total * 100, 2), in hundredths of a percent
MissingPct(missing, total) ==
    IF total = 0 THEN 0
    ELSE LET q == (missing * 10000) \div total
             r == (missing * 10000) % total
         IN  IF 2 * r > total \/ (2 * r = total /\ q % 2 = 1) THEN q + 1 ELSE q

\* a == b in Python, as the hash table of Series.nunique compares cells:
\* numbers and booleans by their value, whatever their type
SameValue(a, b) ==
    \/ a = b
    \/ /\ a.k \in {"int", "float", "bool"}
       /\ b.k \in {"int", "float", "bool"}
       /\ a.n * b.d = b.n * a.d

\* Series.nunique() of cells that are not null
nunique(cells) ==
    Cardinality({i \in 1..Len(cells) :
                    \A j \in 1..(i - 1) : ~SameValue(cells[j], cells[i])})

\* samples told apart by value (v not in sample_values), not by str(v)
RECURSIVE SampleValuesByValue(_, _)
SampleValuesByValue(non_missing, top_values) ==
    IF non_missing = <<>> THEN <<>>
    ELSE LET last == non_missing[Len(non_missing)]
             before == SampleValuesByValue(SubSeq(non_missing, 1, Len(non_missing) - 1),
                                           top_values)
         IN  IF Len(non_missing) > 1 /\ Len(before) >= top_values THEN before
             ELSE IF \E j \in 1..Len(before) : SameValue(before[j], last)
                  THEN before
                  ELSE Append(before, last)

\* the loop without its break at top_values samples
RECURSIVE SampleValuesUncapped(_, _)
SampleValuesUncapped(non_missing, top_values) ==
    IF non_missing = <<>> THEN <<>>
    ELSE LET last == non_missing[Len(non_missing)]
             before == SampleValuesUncapped(SubSeq(non_missing, 1, Len(non_missing) - 1),
                                            top_values)
         IN  IF \E j \in 1..Len(before) : StrOf(before[j]) = StrOf(last)
             THEN before
             ELSE Append(before, last)

RECURSIVE SampleValues(_, _)
SampleValues(non_missing, top_values) ==
    IF non_missing = <<>> THEN <<>>
    ELSE LET last == non_missing[Len(non_missing)]
             before == SampleValues(SubSeq(non_missing, 1, Len(non_missing) - 1),
                                    top_values)
         IN  IF Len(non_missing) > 1 /\ Len(before) >= top_values THEN before
             ELSE IF \E j \in 1..Len(before) : StrOf(before[j]) = StrOf(last)
                  THEN before
                  ELSE Append(before, last)

\* type issues counted on every text column, numeric-flagged or not
ProfileCountingAllTextColumns(col, total, top_values) ==
    LET missing == MissingCount(col.cells)
        non_missing == NonMissing(col.cells)
        type_issues == IF col.dtype = "object" THEN ParseFailures(non_missing) ELSE 0
    IN  [column |-> col.name,
         missing_count |-> missing,
         type_issues |-> type_issues,
         total_issues |-> missing + type_issues,
         missing_pct |-> MissingPct(missing, total),
         dtype |-> col.dtype,
         unique_count |-> nunique(non_missing),
         sample_values |-> SampleValues(non_missing, top_values)]

\* one element of rows
ColumnProfile(col, total, top_values) ==
    LET missing == MissingCount(col.cells)
        non_missing == NonMissing(col.cells)
        type_issues == IF col.dtype = "object" /\ _is_numeric_column(col)
                       THEN ParseFailures(non_missing)
                       ELSE 0
    IN  [column |-> col.name,
         missing_count |-> missing,
         type_issues |-> type_issues,
         total_issues |-> missing + type_issues,
         missing_pct |-> MissingPct(missing, total),
         dtype |-> col.dtype,
         unique_count |-> nunique(non_missing),
         sample_values |-> SampleValues(non_missing, top_values)]

\* sort_values("total_issues", ascending=False): rows of equal key keep their order
RECURSIVE SortByTotalIssues(_)
SortByTotalIssues(rows) ==
    IF rows = <<>> THEN <<>>
    ELSE LET first == CHOOSE i \in 1..Len(rows) :
                        /\ \A j \in 1..Len(rows) :
                              rows[j].total_issues <= rows[i].total_issues
                        /\ \A j \in 1..(i - 1) :
                              rows[j].total_issues # rows[i].total_issues
         IN  <<rows[first]>> \o SortByTotalIssues(AtPositions(rows, (1..Len(rows)) \ {first}))

\* the longest array that the default sort kind ("quicksort") of sort_values
\* orders by insertion, which keeps rows of equal key in order; longer arrays
\* are partitioned first, which does not
InsertionSortMaxLen == 17

\* every order of the rows by descending total_issues
RECURSIVE DescendingOrders(_)
DescendingOrders(rows) ==
    IF rows = <<>> THEN {<<>>}
    ELSE LET greatest == {i \in 1..Len(rows) :
                            \A j \in 1..Len(rows) :
                                rows[j].total_issues <= rows[i].total_issues}
         IN  UNION {{<<rows[i]>> \o rest :
                        rest \in DescendingOrders(AtPositions(rows, (1..Len(rows)) \ {i}))}
                    : i \in greatest}

\* the results sort_values("total_issues", ascending=False) can give: rows of
\* equal key keep their order only when the rows are few enough to be sorted
\* by insertion
SortOutcomes(rows) ==
    IF Len(rows) <= InsertionSortMaxLen
    THEN {SortByTotalIssues(rows)}
    ELSE DescendingOrders(rows)

\* sort_values raises KeyError on the frame built from no rows
AnalyzeRaises(t) == NCols(t) = 0

analyze_missing_summary(t, top_values) ==
    SortByTotalIssues(MapSeq(LAMBDA col : ColumnProfile(col, NRows(t), top_values),
                             t.columns))

\* the "after" profiles left as analyze_missing_summary computed them
ComputedSummary(rows) == rows

\* the "after" profiles of clean_dataframe, their counts overwritten with 0
ZeroedSummary(rows) ==
    MapSeq(LAMBDA row : [row EXCEPT !.missing_count = 0, !.type_issues = 0,
                                    !.total_issues = 0, !.missing_pct = 0],
           rows)

-----------------------------------------------------------------------------
(* clean_dataframe *)

\* duplicates dropped whether requested or not
AlwaysDeduplicated(working, drop) == drop_duplicates(working)

\* if drop_duplicates: working = working.drop_duplicates()
Deduplicated(working, drop) == IF drop THEN drop_duplicates(working) ELSE working

\* the steps of clean_dataframe that a call gets through before it returns
\* or raises
StepsOf(t, drop) ==
    IF ~IsDataFrame(t) THEN <<>>
    ELSE IF AnalyzeRaises(t) THEN <<"classify">>
    ELSE <<"classify", "summarize", "copy", "replace", "count">>
         \o (IF drop THEN <<"drop_duplicates">> ELSE <<>>)
         \o <<"coerce", "fill", "summarize">>

\* DataFrame objects live in a heap, a sequence of frames; a reference to an
\* object is its position. An assignment into a frame (working.loc[...] = ,
\* working[col] = ) changes the object in place.
Store(heap, ref, frame) == [heap EXCEPT ![ref] = frame]

\* the same object handed on, where a copy is meant
SameObject(heap, ref) == [heap |-> heap, ref |-> ref]

\* df.copy(): a new object with the cells of the old one
copy(heap, ref) == [heap |-> Append(heap, heap[ref]), ref |-> Len(heap) + 1]

\* _replace_placeholders(df) on the heap: working = df.copy(), the placeholder
\* cells of working assigned NaN in place, working returned
ReplacedCopy(heap, ref) ==
    LET local == copy(heap, ref)
    IN  [heap |-> Store(local.heap, local.ref,
                        _replace_placeholders(local.heap[local.ref])),
         ref |-> local.ref]

\* the (working, summary) pair clean_dataframe returns, the caller's table
\* (object 1 of the heap) as the call leaves it, and the local values of the
\* call after its steps 1, 4 and 5: numeric_cols_to_fix, and working after
\* the duplicate removal and after the coercion loop
clean_dataframe(t, drop) ==
    LET numeric_cols_to_fix == NumericColsToFix(t)
        argument == copy(<<t>>, 1)
        local == ReplacedCopy(argument.heap, argument.ref)
        heap_replaced == local.heap
        without == heap_replaced[local.ref]
        missing_before == TotalIssuesWorking(without, numeric_cols_to_fix)
        deduplicated == Deduplicated(without, drop)
        dropped_dupes == IF drop THEN NRows(without) - NRows(deduplicated) ELSE 0
        heap_deduplicated ==
            IF drop THEN Append(heap_replaced, deduplicated) ELSE heap_replaced
        working_ref == IF drop THEN Len(heap_deduplicated) ELSE local.ref
        working == FillColumns(CoerceNumeric(deduplicated, numeric_cols_to_fix))
        heap_filled == Store(heap_deduplicated, working_ref, working)
        missing_after == MissingAfter(working)
    IN  [working |-> heap_filled[working_ref],
         input |-> heap_filled[1],
         stages |-> [numeric_cols_to_fix |-> numeric_cols_to_fix,
                     deduplicated |-> deduplicated,
                     coerced |-> CoerceNumeric(deduplicated, numeric_cols_to_fix)],
         summary |->
            [original_rows |-> NRows(t),
             cleaned_rows |-> NRows(working),
             dropped_duplicates |-> dropped_dupes,
             missing_before_total |-> missing_before,
             missing_after_total |-> missing_after,
             missing_before |-> missing_before,
             missing_after |-> missing_after,
             columns |-> NCols(working),
             missing_summary_before |-> analyze_missing_summary(t, top_values_default),
             missing_summary_after |->
                 ZeroedSummary(analyze_missing_summary(working, top_values_default))]]

-----------------------------------------------------------------------------
(* Specification of single calls of _is_missing_value *)

Alphabet == {"n", "N", "a", "A", "/", " ", "-", "x", "1"}

\* the sequences over pool of length len, and of length at most len
SeqsOfLen(pool, len) == [1..len -> pool]

SeqsUpTo(pool, len) == UNION {SeqsOfLen(pool, n) : n \in 0..len}

Strings(len) == SeqsUpTo(Alphabet, len)

CellValues ==
    {Null, IntV(0), IntV(1), FloatV(3, 2), BoolV(0), BoolV(1), DateV(1),
     ListV(1), ListV(2)}
    \cup {TextV(t) : t \in Strings(MaxTextLen)}

CellInit ==
    /\ val \in CellValues
    /\ val_missing = FALSE
    /\ cell_pc = "call"

IsMissingCall ==
    /\ cell_pc = "call"
    /\ IF IsMissingRaises(val)
       THEN cell_pc' = "ValueError" /\ UNCHANGED val_missing
       ELSE cell_pc' = "returned" /\ val_missing' = _is_missing_value(val)
    /\ UNCHANGED <<val, colVars, dfVars, sortVars, uploadVars, replaceVars,
                   analyzeVars, clientVars>>

-----------------------------------------------------------------------------
(* Specification of single calls of _is_numeric_column and _fill_column *)

NA == TextV(<<"N", "/", "A">>)

ObjectPool == {Null, NA, TextV(<<"1">>), TextV(<<"x">>), ListV(1), ListV(2)}

FloatPool == {Null, FloatV(1, 1), FloatV(2, 1), FloatV(4, 1)}

DatePool == {Null, DateV(1), DateV(2)}

IntPool == {IntV(1), IntV(2)}

\* the Series of the model of len cells; an empty Series has dtype object, as
\* read_csv gives it
IsSeriesOf(col, name, len) ==
    \/ \E c \in SeqsOfLen(ObjectPool, len) : col = Series(name, "object", c)
    \/ len > 0 /\ \E c \in SeqsOfLen(FloatPool, len) : col = Series(name, "float64", c)
    \/ len > 0 /\ \E c \in SeqsOfLen(DatePool, len) : col = Series(name, "datetime64", c)
    \/ len > 0 /\ \E c \in SeqsOfLen(IntPool, len) : col = Series(name, "int64", c)

NoSeries == Series("", "object", <<>>)

ColInit ==
    /\ \E len \in 0..MaxColLen : IsSeriesOf(series, "a", len)
    /\ s_numeric = FALSE
    /\ s_filled = NoSeries
    /\ col_pc = "call"

IsNumericColumnCall ==
    /\ col_pc = "call"
    /\ IF ApplyIsMissingRaises(series.cells)
       THEN col_pc' = "ValueError" /\ UNCHANGED s_numeric
       ELSE col_pc' = "classified" /\ s_numeric' = _is_numeric_column(series)
    /\ UNCHANGED <<series, s_filled, cellVars, dfVars, sortVars, uploadVars, replaceVars,
                   analyzeVars, clientVars>>

FillColumnCall ==
    /\ col_pc = "call"
    /\ IF ApplyIsMissingRaises(series.cells)
       THEN col_pc' = "ValueError" /\ UNCHANGED s_filled
       ELSE col_pc' = "filled" /\ s_filled' = _fill_column(series)
    /\ UNCHANGED <<series, s_numeric, cellVars, dfVars, sortVars, uploadVars, replaceVars,
                   analyzeVars, clientVars>>

CellNext == IsMissingCall

ColNext == IsNumericColumnCall \/ FillColumnCall

-----------------------------------------------------------------------------
(* Specification of calls of clean_dataframe: a first call on an input     *)
(* frame, then calls on the frame the previous call returned               *)

FrameObjectPool == {Null, NA, TextV(<<"1">>), TextV(<<"x">>)}

FrameFloatPool == {Null, FloatV(1, 1)}

FrameDatePool == {Null, DateV(1)}

\* the second column of a frame of len rows, if it has one
SecondColumns(len) ==
    {<<>>}
    \cup {<<Series("b", "float64", c)>> : c \in SeqsOfLen(FrameFloatPool, len)}
    \cup {<<Series("b", "datetime64", c)>> : c \in SeqsOfLen(FrameDatePool, len)}

RECURSIVE RangeIndex(_)
RangeIndex(len) == IF len = 0 THEN <<>> ELSE Append(RangeIndex(len - 1), len - 1)

\* frames of at most MaxRows rows: a text column "a", and possibly a second
\* column "b"; a frame of no rows has text columns only
IsSmallFrame(t) ==
    \E len \in 0..MaxRows :
        \E a \in SeqsOfLen(FrameObjectPool, len) :
            \E b \in (IF len = 0 THEN {<<>>} ELSE SecondColumns(len)) :
                t = DataFrame(<<Series("a", "object", a)>> \o b, RangeIndex(len))

\* frames of one text column tall enough to be classified numeric while
\* holding cells that do not parse
MaxTallFree == 2

TallPrefix ==
    <<TextV(<<"1">>), TextV(<<"2">>), TextV(<<"2">>), TextV(<<"3">>), TextV(<<"4">>)>>

IsTallFrame(t) ==
    \E len \in 0..MaxTallFree :
        \E free \in SeqsOfLen(FrameObjectPool, len) :
            t = DataFrame(<<Series("a", "object", TallPrefix \o free)>>,
                          RangeIndex(Len(TallPrefix) + len))

\* the frame of the demo at the end of cleaner.py, without its date column
DemoFrame ==
    DataFrame(
        <<Series("a", "float64",
                 <<FloatV(1, 1), FloatV(2, 1), Null, FloatV(2, 1), FloatV(1, 1)>>),
          Series("b", "object",
                 <<TextV(<<"x">>), Null, TextV(<<"y">>), TextV(<<"x">>), TextV(<<"x">>)>>)>>,
        RangeIndex(5))

NoColumnsFrame == DataFrame(<<>>, <<>>)

IsInputFrame(t) ==
    \/ IsSmallFrame(t)
    \/ IsTallFrame(t)
    \/ t = DemoFrame
    \/ t = NoColumnsFrame

\* the arguments of clean_dataframe: frames, and objects of other classes
IsInput(x) ==
    \/ IsInputFrame(x)
    \/ \E class \in {"NoneType", "dict", "list"} : x = NotDataFrame(class)

\* no call of clean_dataframe has got to its coercion loop
NoStages ==
    [numeric_cols_to_fix |-> {}, deduplicated |-> NoColumnsFrame,
     coerced |-> NoColumnsFrame]

CellIdle == val = Null /\ val_missing = FALSE /\ cell_pc = "idle"

ColIdle == series = NoSeries /\ s_numeric = FALSE /\ s_filled = NoSeries /\ col_pc = "idle"

FrameIdle ==
    /\ df = NoColumnsFrame
    /\ drop_dup = TRUE
    /\ cleaned = NoColumnsFrame
    /\ summary = <<>>
    /\ outcome = "idle"
    /\ calls = 0
    /\ work = <<>>
    /\ df_after = NoColumnsFrame
    /\ stages = NoStages

FrameInit ==
    /\ IsInput(df)
    /\ drop_dup = TRUE
    /\ cleaned = NoColumnsFrame
    /\ summary = <<>>
    /\ outcome = "none"
    /\ calls = 0
    /\ work = <<>>
    /\ df_after = NoColumnsFrame
    /\ stages = NoStages

\* Specification of single sorts of the rows of a summary: up to MaxSortRows
\* rows of any issue counts, and rows too many to be sorted by insertion, of
\* which the last MaxSortFree have any issue counts
ProfileRow(column, total_issues) == [column |-> column, total_issues |-> total_issues]

RECURSIVE DistinctRows(_, _)
DistinctRows(len, above) ==
    IF len = 0 THEN <<>>
    ELSE <<ProfileRow(0, above + len)>> \o DistinctRows(len - 1, above)

\* the rows numbered 1.. in their order
RECURSIVE Numbered(_)
Numbered(rows) ==
    IF rows = <<>> THEN <<>>
    ELSE Append(Numbered(SubSeq(rows, 1, Len(rows) - 1)),
                ProfileRow(Len(rows), rows[Len(rows)].total_issues))

IsSortInput(rows) ==
    \/ \E len \in 0..MaxSortRows :
          \E keys \in SeqsOfLen(0..MaxIssues, len) :
              rows = Numbered(MapSeq(LAMBDA k : ProfileRow(0, k), keys))
    \/ \E keys \in SeqsOfLen(0..MaxIssues, MaxSortFree) :
          rows = Numbered(DistinctRows(InsertionSortMaxLen - 1, MaxIssues)
                          \o MapSeq(LAMBDA k : ProfileRow(0, k), keys))

SortInit ==
    /\ IsSortInput(sort_rows)
    /\ sort_result = <<>>
    /\ sort_pc = "call"

SortIdle == sort_rows = <<>> /\ sort_result = <<>> /\ sort_pc = "idle"

SortValuesCall ==
    /\ sort_pc = "call"
    /\ sort_result' \in SortOutcomes(sort_rows)
    /\ sort_pc' = "sorted"
    /\ UNCHANGED <<sort_rows, cellVars, colVars, dfVars, uploadVars, replaceVars,
                   analyzeVars, clientVars>>

SortNext == SortValuesCall

-----------------------------------------------------------------------------
(* Specification of requests to POST /process (routes/process.py) and of   *)
(* the client cache of config.py. A client is a positive number, None is 0. *)

None == 0

\* get_mongo_client(): the client returned (None when there is none), the
\* cache and the number of clients made afterwards; raised is TRUE when it
\* raises RuntimeError. create_ok tells whether MongoClient(...) succeeds.
get_mongo_client(uri, installed, cache, created, create_ok) ==
    IF ~uri
    THEN [raised |-> FALSE, client |-> None, cache |-> cache, created |-> created]
    ELSE IF ~installed
    THEN [raised |-> TRUE, client |-> None, cache |-> cache, created |-> created]
    ELSE IF cache # None
    THEN [raised |-> FALSE, client |-> cache, cache |-> cache, created |-> created]
    ELSE IF create_ok
    THEN [raised |-> FALSE, client |-> created + 1, cache |-> created + 1,
          created |-> created + 1]
    ELSE [raised |-> FALSE, client |-> None, cache |-> None, created |-> created]

\* the body of the try block that persists the run: raised is TRUE when an
\* exception leaves it, stored is the number of documents inserted
PersistRun(req, uri, installed, cache, created) ==
    LET got == get_mongo_client(uri, installed, cache, created, req.create_ok)
    IN  IF got.raised
        THEN [raised |-> TRUE, stored |-> 0, cache |-> got.cache, created |-> got.created]
        ELSE IF got.client = None
        THEN [raised |-> FALSE, stored |-> 0, cache |-> got.cache, created |-> got.created]
        ELSE IF ~req.insert_ok
        THEN [raised |-> TRUE, stored |-> 0, cache |-> got.cache, created |-> got.created]
        ELSE [raised |-> FALSE, stored |-> 1, cache |-> got.cache, created |-> got.created]

\* an exception of the store write let through to the caller
Propagated(attempt) == attempt

\* except Exception as e: logger.warning(...)
BestEffort(attempt) == [attempt EXCEPT !.raised = FALSE]

HTTPException(status_code) == [status_code |-> status_code, content |-> "detail"]

JSONResponse(status_code) == [status_code |-> status_code, content |-> "summary"]

NoResponse == [status_code |-> 0, content |-> "none"]

\* process_upload(file): the response, and the store and cache afterwards
process_upload(req, uri, installed, cache, created) ==
    LET untouched == [raised |-> FALSE, stored |-> 0, cache |-> cache, created |-> created]
        attempt == IF uri
                   THEN BestEffort(PersistRun(req, uri, installed, cache, created))
                   ELSE untouched
    IN  IF ~req.csv THEN [response |-> HTTPException(400), store |-> untouched]
        ELSE IF ~req.save_ok THEN [response |-> HTTPException(500), store |-> untouched]
        ELSE IF req.clean = "FileNotFoundError"
        THEN [response |-> HTTPException(400), store |-> untouched]
        ELSE IF req.clean = "Exception"
        THEN [response |-> HTTPException(500), store |-> untouched]
        ELSE IF ~req.report_ok THEN [response |-> HTTPException(500), store |-> untouched]
        ELSE IF attempt.raised THEN [response |-> HTTPException(500), store |-> attempt]
        ELSE [response |-> JSONResponse(200), store |-> attempt]

\* what a request meets: the file name, the outcome of saving, cleaning and
\* reporting, and of the client creation and the insert if they are tried
Requests ==
    [csv : BOOLEAN, save_ok : BOOLEAN,
     clean : {"ok", "FileNotFoundError", "Exception"},
     report_ok : BOOLEAN, create_ok : BOOLEAN, insert_ok : BOOLEAN]

NoRequest ==
    [csv |-> FALSE, save_ok |-> FALSE, clean |-> "ok", report_ok |-> FALSE,
     create_ok |-> FALSE, insert_ok |-> FALSE]

UploadInit ==
    /\ MONGODB_URI \in BOOLEAN
    /\ MongoClient \in BOOLEAN
    /\ _CLIENT = None
    /\ clients_created = 0
    /\ clean_runs = 0
    /\ request = NoRequest
    /\ response = NoResponse
    /\ requests = 0

UploadIdle ==
    /\ MONGODB_URI = FALSE
    /\ MongoClient = FALSE
    /\ _CLIENT = None
    /\ clients_created = 0
    /\ clean_runs = 0
    /\ request = NoRequest
    /\ response = NoResponse
    /\ requests = -1

ProcessUploadCall(req) ==
    /\ requests \in 0..(MaxRequests - 1)
    /\ LET result == process_upload(req, MONGODB_URI, MongoClient, _CLIENT, clients_created)
       IN  /\ response' = result.response
           /\ _CLIENT' = result.store.cache
           /\ clients_created' = result.store.created
           /\ clean_runs' = clean_runs + result.store.stored
    /\ request' = req
    /\ requests' = requests + 1
    /\ UNCHANGED <<MONGODB_URI, MongoClient, cellVars, colVars, dfVars, sortVars,
                   replaceVars, analyzeVars, clientVars>>

UploadNext == \E req \in Requests : ProcessUploadCall(req)

-----------------------------------------------------------------------------
(* Specification of single calls of _replace_placeholders *)

ReplaceObjectPool ==
    {Null, NA, TextV(<<" ", "n", "a">>), TextV(<<"x">>), IntV(1)}

\* the columns next to the text column of a frame of len rows
ReplaceSecondColumns(len) ==
    SecondColumns(len)
    \cup {<<Series("b", "int64", c)>> : c \in SeqsOfLen(IntPool, len)}

\* frames of a generic (object) column "a" that holds nulls, placeholder
\* texts, other text and numbers, and possibly a column "b" of a native type
IsReplaceInput(t) ==
    \E len \in 0..MaxRows :
        \E a \in SeqsOfLen(ReplaceObjectPool, len) :
            \E b \in (IF len = 0 THEN {<<>>} ELSE ReplaceSecondColumns(len)) :
                t = DataFrame(<<Series("a", "object", a)>> \o b, RangeIndex(len))

ReplaceIdle == replaced = NoColumnsFrame /\ replace_pc = "idle"

AnalyzeIdle == profiles = <<>> /\ analyze_pc = "idle"

ClientIdle ==
    /\ thread_pc = <<>>
    /\ thread_new = <<>>
    /\ thread_got = <<>>
    /\ thread_calls = <<>>
    /\ handed_out = {}

\* df holds the argument, df_after the caller's object
ReplaceInit ==
    /\ IsReplaceInput(df)
    /\ df_after = df
    /\ drop_dup = TRUE
    /\ cleaned = NoColumnsFrame
    /\ summary = <<>>
    /\ outcome = "idle"
    /\ calls = 0
    /\ work = <<>>
    /\ stages = NoStages
    /\ replaced = NoColumnsFrame
    /\ replace_pc = "call"

ReplacePlaceholdersCall ==
    /\ replace_pc = "call"
    /\ LET result == ReplacedCopy(<<df>>, 1)
       IN  /\ replaced' = result.heap[result.ref]
           /\ df_after' = result.heap[1]
    /\ replace_pc' = "returned"
    /\ UNCHANGED <<df, drop_dup, cleaned, summary, outcome, calls, work, stages,
                   cellVars, colVars, sortVars, uploadVars, analyzeVars, clientVars>>

ReplaceNext == ReplacePlaceholdersCall

-----------------------------------------------------------------------------
(* Specification of single calls of analyze_missing_summary *)

MixedObjectPool ==
    {Null, NA, IntV(1), FloatV(1, 1), TextV(<<"1">>), TextV(<<"x">>)}

\* frames of a generic (object) column "a" that holds nulls, placeholders,
\* text and numbers of both types, and possibly a float column "b"; the tall
\* frames; the frame without columns
IsAnalyzeInput(t) ==
    \/ \E len \in 0..MaxRows :
          \E a \in SeqsOfLen(MixedObjectPool, len) :
              \/ t = DataFrame(<<Series("a", "object", a)>>, RangeIndex(len))
              \/ /\ len > 0
                 /\ \E b \in SeqsOfLen(FrameFloatPool, len) :
                       t = DataFrame(<<Series("a", "object", a), Series("b", "float64", b)>>,
                                     RangeIndex(len))
    \/ IsTallFrame(t)
    \/ t = NoColumnsFrame

\* df holds the argument
AnalyzeInit ==
    /\ IsAnalyzeInput(df)
    /\ drop_dup = TRUE
    /\ cleaned = NoColumnsFrame
    /\ summary = <<>>
    /\ outcome = "idle"
    /\ calls = 0
    /\ work = <<>>
    /\ df_after = NoColumnsFrame
    /\ stages = NoStages
    /\ profiles = <<>>
    /\ analyze_pc = "call"

\* analyze_missing_summary(df)
AnalyzeMissingSummaryCall ==
    /\ analyze_pc = "call"
    /\ IF AnalyzeRaises(df)
       THEN analyze_pc' = "KeyError" /\ UNCHANGED profiles
       ELSE /\ analyze_pc' = "returned"
            /\ profiles' = analyze_missing_summary(df, top_values_default)
    /\ UNCHANGED <<cellVars, colVars, dfVars, sortVars, uploadVars, replaceVars,
                   clientVars>>

AnalyzeNext == AnalyzeMissingSummaryCall

InitAnalyze ==
    AnalyzeInit /\ CellIdle /\ ColIdle /\ SortIdle /\ UploadIdle /\ ReplaceIdle
    /\ ClientIdle

SpecAnalyze == InitAnalyze /\ [][AnalyzeNext]_vars

-----------------------------------------------------------------------------
(* Specification of threads calling get_mongo_client() of config.py: the    *)
(* handlers of sync endpoints run on the threads of a pool, and every step  *)
(* of a call that reads or writes the global _CLIENT is an action           *)

Threads == 1..MaxThreads

\* the module has no global _CLIENT until a call binds it
Undefined == -1

\* what a call that raised RuntimeError leaves in thread_got
Raised == -2

ClientInit ==
    /\ MONGODB_URI \in BOOLEAN
    /\ MongoClient \in BOOLEAN
    /\ _CLIENT = Undefined
    /\ clients_created = 0
    /\ clean_runs = 0
    /\ request = NoRequest
    /\ response = NoResponse
    /\ requests = -1
    /\ thread_pc = [t \in Threads |-> "idle"]
    /\ thread_new = [t \in Threads |-> None]
    /\ thread_got = [t \in Threads |-> None]
    /\ thread_calls = [t \in Threads |-> 0]
    /\ handed_out = {}

clientFrame ==
    <<MONGODB_URI, MongoClient, clean_runs, request, response, requests,
      cellVars, colVars, dfVars, sortVars, replaceVars, analyzeVars>>

\* the call returns value (Raised: it raises RuntimeError)
Returns(t, value) ==
    /\ thread_pc' = [thread_pc EXCEPT ![t] = "idle"]
    /\ thread_got' = [thread_got EXCEPT ![t] = value]
    /\ thread_calls' = [thread_calls EXCEPT ![t] = thread_calls[t] + 1]
    /\ handed_out' = IF value \in {None, Raised} THEN handed_out
                     ELSE handed_out \cup {value}

\* a thread calls get_mongo_client()
ThreadCall(t) ==
    /\ thread_pc[t] = "idle"
    /\ thread_calls[t] < MaxThreadCalls
    /\ thread_pc' = [thread_pc EXCEPT ![t] = "globals"]
    /\ UNCHANGED <<_CLIENT, clients_created, thread_new, thread_got, thread_calls,
                   handed_out, clientFrame>>

\* if "_CLIENT" not in globals():
ThreadGlobals(t) ==
    /\ thread_pc[t] = "globals"
    /\ thread_pc' = [thread_pc EXCEPT ![t] = IF _CLIENT = Undefined THEN "define"
                                              ELSE "guards"]
    /\ UNCHANGED <<_CLIENT, clients_created, thread_new, thread_got, thread_calls,
                   handed_out, clientFrame>>

\* _CLIENT = None
ThreadDefine(t) ==
    /\ thread_pc[t] = "define"
    /\ _CLIENT' = None
    /\ thread_pc' = [thread_pc EXCEPT ![t] = "guards"]
    /\ UNCHANGED <<clients_created, thread_new, thread_got, thread_calls,
                   handed_out, clientFrame>>

\* if not MONGODB_URI: return None; if MongoClient is None: raise;
\* if _CLIENT is not None:
ThreadGuards(t) ==
    /\ thread_pc[t] = "guards"
    /\ IF ~MONGODB_URI THEN Returns(t, None)
       ELSE IF ~MongoClient THEN Returns(t, Raised)
       ELSE /\ thread_pc' = [thread_pc EXCEPT ![t] = IF _CLIENT # None THEN "cached"
                                                     ELSE "create"]
            /\ UNCHANGED <<thread_got, thread_calls, handed_out>>
    /\ UNCHANGED <<_CLIENT, clients_created, thread_new, clientFrame>>

\* return _CLIENT, after the cache was found filled
ThreadReturnCached(t) ==
    /\ thread_pc[t] = "cached"
    /\ Returns(t, _CLIENT)
    /\ UNCHANGED <<_CLIENT, clients_created, thread_new, clientFrame>>

\* MongoClient(MONGODB_URI, ...): a new client, or an exception
ThreadCreate(t, create_ok) ==
    /\ thread_pc[t] = "create"
    /\ IF create_ok
       THEN /\ clients_created' = clients_created + 1
            /\ thread_new' = [thread_new EXCEPT ![t] = clients_created + 1]
            /\ thread_pc' = [thread_pc EXCEPT ![t] = "assign"]
       ELSE /\ thread_pc' = [thread_pc EXCEPT ![t] = "except"]
            /\ UNCHANGED <<clients_created, thread_new>>
    /\ UNCHANGED <<_CLIENT, thread_got, thread_calls, handed_out, clientFrame>>

\* _CLIENT = (the new client)
ThreadAssign(t) ==
    /\ thread_pc[t] = "assign"
    /\ _CLIENT' = thread_new[t]
    /\ thread_pc' = [thread_pc EXCEPT ![t] = "return"]
    /\ UNCHANGED <<clients_created, thread_new, thread_got, thread_calls,
                   handed_out, clientFrame>>

\* except Exception: _CLIENT = None
ThreadExcept(t) ==
    /\ thread_pc[t] = "except"
    /\ _CLIENT' = None
    /\ thread_pc' = [thread_pc EXCEPT ![t] = "return"]
    /\ UNCHANGED <<clients_created, thread_new, thread_got, thread_calls,
                   handed_out, clientFrame>>

\* return _CLIENT, at the end of the function
ThreadReturn(t) ==
    /\ thread_pc[t] = "return"
    /\ Returns(t, _CLIENT)
    /\ UNCHANGED <<_CLIENT, clients_created, thread_new, clientFrame>>

ClientNext ==
    \E t \in Threads :
        \/ ThreadCall(t)
        \/ ThreadGlobals(t)
        \/ ThreadDefine(t)
        \/ ThreadGuards(t)
        \/ ThreadReturnCached(t)
        \/ \E create_ok \in BOOLEAN : ThreadCreate(t, create_ok)
        \/ ThreadAssign(t)
        \/ ThreadExcept(t)
        \/ ThreadReturn(t)

InitClient ==
    ClientInit /\ CellIdle /\ ColIdle /\ FrameIdle /\ SortIdle /\ ReplaceIdle
    /\ AnalyzeIdle

SpecClient == InitClient /\ [][ClientNext]_vars

Init ==
    FrameInit /\ CellIdle /\ ColIdle /\ SortIdle /\ UploadIdle /\ ReplaceIdle
    /\ AnalyzeIdle /\ ClientIdle

InitUpload ==
    UploadInit /\ CellIdle /\ ColIdle /\ FrameIdle /\ SortIdle /\ ReplaceIdle
    /\ AnalyzeIdle /\ ClientIdle

InitSort ==
    SortInit /\ CellIdle /\ ColIdle /\ FrameIdle /\ UploadIdle /\ ReplaceIdle
    /\ AnalyzeIdle /\ ClientIdle

InitCell ==
    CellInit /\ ColIdle /\ FrameIdle /\ SortIdle /\ UploadIdle /\ ReplaceIdle
    /\ AnalyzeIdle /\ ClientIdle

InitCol ==
    ColInit /\ CellIdle /\ FrameIdle /\ SortIdle /\ UploadIdle /\ ReplaceIdle
    /\ AnalyzeIdle /\ ClientIdle

\* clean_dataframe(input, drop), input being df at the first call and the
\* frame returned by the previous call afterwards; df keeps the argument as
\* it was passed, df_after the caller's object once the call is over
CleanDataframeCall(drop) ==
    /\ calls < MaxCalls
    /\ outcome \in {"none", "returned"}
    /\ LET input == IF calls = 0 THEN df ELSE cleaned
       IN  /\ df' = input
           /\ work' = StepsOf(input, drop)
           /\ IF ~IsDataFrame(input)
              THEN /\ outcome' = "TypeError"
                   /\ df_after' = input
                   /\ UNCHANGED <<cleaned, summary, stages>>
              ELSE IF AnalyzeRaises(input)
              THEN /\ outcome' = "KeyError"
                   /\ df_after' = input
                   /\ UNCHANGED <<cleaned, summary, stages>>
              ELSE \E result \in {clean_dataframe(input, drop)} :
                      /\ outcome' = "returned"
                      /\ df_after' = result.input
                      /\ cleaned' = result.working
                      /\ summary' = result.summary
                      /\ stages' = result.stages
    /\ drop_dup' = drop
    /\ calls' = calls + 1
    /\ UNCHANGED <<cellVars, colVars, sortVars, uploadVars, replaceVars,
                   analyzeVars, clientVars>>

Next == \E drop \in BOOLEAN : CleanDataframeCall(drop)

Spec == Init /\ [][Next]_vars

SpecCell == InitCell /\ [][CellNext]_vars

SpecCol == InitCol /\ [][ColNext]_vars

SpecSort == InitSort /\ [][SortNext]_vars

SpecUpload == InitUpload /\ [][UploadNext]_vars

InitReplace ==
    ReplaceInit /\ CellIdle /\ ColIdle /\ SortIdle /\ UploadIdle
    /\ AnalyzeIdle /\ ClientIdle

SpecReplace == InitReplace /\ [][ReplaceNext]_vars

Returned == calls > 0 /\ outcome = "returned"

-----------------------------------------------------------------------------
(* Properties of clean_dataframe *)

Range(seq) == {seq[i] : i \in 1..Len(seq)}

AllCells(t) == UNION {Range(t.columns[c].cells) : c \in 1..NCols(t)}

\* the positions of the rows of df that clean_dataframe dropped
RemovedRows == {i \in 1..NRows(df) : df.index[i] \notin Range(cleaned.index)}

\* C1: after cleaning, no cell of the returned table is missing (null, or a
\* text whose lowercased, trimmed form is a placeholder), whatever the input
\* table and the drop_duplicates flag.
C1_ImputationComplete ==
    Returned => \A v \in AllCells(cleaned) : ~_is_missing_value(v)

\* C2: cleaning the table a previous clean returned reports
\* missing_after_total = 0.
C2_CleanOfCleanedHasNoMissing ==
    (Returned /\ calls >= 2) => summary.missing_after_total = 0

\* C3: cleaned_rows <= original_rows; with duplicate removal enabled
\* original_rows - cleaned_rows = dropped_duplicates; with it disabled
\* cleaned_rows = original_rows and dropped_duplicates = 0. The two counts are
\* the row counts of the input and of the returned table.
C3_RowCounts ==
    Returned =>
        /\ summary.original_rows = NRows(df)
        /\ summary.cleaned_rows = NRows(cleaned)
        /\ summary.cleaned_rows <= summary.original_rows
        /\ drop_dup =>
              summary.original_rows - summary.cleaned_rows = summary.dropped_duplicates
        /\ ~drop_dup =>
              /\ summary.cleaned_rows = summary.original_rows
              /\ summary.dropped_duplicates = 0

C3_Witness ==
    /\ Returned
    /\ drop_dup
    /\ summary.dropped_duplicates > 0
    /\ summary.cleaned_rows > 1

\* C4, as claimed: with duplicate removal enabled, a row of the input is
\* removed only if every cell of it equals the corresponding cell of an earlier
\* row of the input.
C4_OnlyExactCopiesRemoved ==
    (Returned /\ drop_dup) =>
        \A i \in RemovedRows : \E j \in 1..(i - 1) : Row(df, j) = Row(df, i)

\* two cells that are equal once placeholder texts have become nulls
SameAfterReplacement(a, b) ==
    a = b \/ (_is_missing_value(a) /\ _is_missing_value(b))

\* C4, amended: with duplicate removal enabled, a row of the input is removed
\* only if every cell of it equals the corresponding cell of an earlier row
\* once placeholder texts count as nulls; rows that differ in some cell
\* otherwise are both retained.
C4_OnlyCopiesAfterReplacementRemoved ==
    (Returned /\ drop_dup) =>
        \A i \in RemovedRows :
            \E j \in 1..(i - 1) :
                \A c \in 1..NCols(df) :
                    SameAfterReplacement(df.columns[c].cells[j], df.columns[c].cells[i])

C4_Witness ==
    /\ Returned
    /\ drop_dup
    /\ NCols(df) = 2
    /\ RemovedRows # {}
    /\ \E i \in 1..NRows(df), j \in 1..NRows(df) :
          /\ i # j
          /\ Row(df, i)[1] = Row(df, j)[1]
          /\ Row(df, i)[2] # Row(df, j)[2]
          /\ {i, j} \cap RemovedRows = {}

\* the issues of the original table as section 4.7 counts them: the missing
\* cells of every column, and the non-missing cells that fail the numeric
\* parse in the columns classified numeric
IssuesOfOriginal(t) ==
    Sum(MapSeq(LAMBDA col :
                  Cardinality({i \in 1..Len(col.cells) : _is_missing_value(col.cells[i])})
                  + IF _is_numeric_column(col)
                    THEN Cardinality({i \in 1..Len(col.cells) :
                                        /\ ~_is_missing_value(col.cells[i])
                                        /\ ~FloatParses(col.cells[i])})
                    ELSE 0,
               t.columns))

\* C5: missing_before_total is the count of issues of the original table,
\* before placeholder replacement: the missing cells of all columns plus, for
\* the columns classified numeric, the non-missing cells that fail the parse.
C5_MissingBeforeCountsOriginal ==
    Returned =>
        /\ summary.missing_before_total = IssuesOfOriginal(df)
        /\ summary.missing_before_total = TotalIssuesOriginal(df, NumericColsToFix(df))

C5_Witness ==
    /\ Returned
    /\ \E c \in 1..NCols(df) :
          /\ _is_numeric_column(df.columns[c])
          /\ \E v \in Range(df.columns[c].cells) : v.k = "text" /\ _is_missing_value(v)
          /\ \E v \in Range(df.columns[c].cells) : ~_is_missing_value(v) /\ ~FloatParses(v)
    /\ summary.missing_before_total >= 2

-----------------------------------------------------------------------------
(* Properties of _is_missing_value *)

\* chars is text, padded with whitespace on either side, that equals the
\* placeholder up to letter case
MatchesPlaceholder(chars, placeholder) ==
    \E before \in 0..Len(chars) :
        LET after == Len(chars) - before - Len(placeholder)
        IN  /\ after >= 0
            /\ \A i \in 1..before : chars[i] \in Whitespace
            /\ \A i \in 1..Len(placeholder) :
                  \/ chars[before + i] = placeholder[i]
                  \/ /\ chars[before + i] \in UpperCase
                     /\ ToLower[chars[before + i]] = placeholder[i]
            /\ \A i \in (Len(chars) - after + 1)..Len(chars) : chars[i] \in Whitespace

\* C6: is_missing is true exactly for null and for text that, lowercased and
\* trimmed, is one of the 16 placeholders; false for other text and for every
\* non-null number, date or boolean; letter case and surrounding whitespace of
\* a text do not matter.
C6_IsMissingExact ==
    /\ Cardinality(PLACEHOLDER_VALUES) = 16
    /\ cell_pc = "returned" =>
          val_missing =
             \/ val.k = "null"
             \/ /\ val.k = "text"
                /\ \E placeholder \in PLACEHOLDER_VALUES :
                      MatchesPlaceholder(val.s, placeholder)

C6_Witness ==
    /\ cell_pc = "returned"
    /\ val_missing
    /\ val.k = "text"
    /\ Len(val.s) = 3
    /\ val.s[1] \in Whitespace
    /\ val.s[2] \in UpperCase

-----------------------------------------------------------------------------
(* Properties of _is_numeric_column and _fill_column *)

NonMissingAt(cells) == {i \in 1..Len(cells) : ~_is_missing_value(cells[i])}

ParsedAt(cells) == {i \in NonMissingAt(cells) : FloatParses(cells[i])}

\* C7: a column with no non-missing cell is not numeric; otherwise it is
\* numeric iff parsed / non-missing > 0.80, so exactly 80% is not numeric.
C7_NumericThreshold ==
    col_pc = "classified" =>
        s_numeric =
           /\ NonMissingAt(series.cells) # {}
           /\ 100 * Cardinality(ParsedAt(series.cells))
                 > 80 * Cardinality(NonMissingAt(series.cells))

C7_Witness ==
    /\ col_pc = "classified"
    /\ Cardinality(NonMissingAt(series.cells)) = 5
    /\ Cardinality(ParsedAt(series.cells)) = 4
    /\ ~s_numeric

NumLessEq(a, b) == a.n * b.d <= b.n * a.d

\* m is the median of the numbers: the midpoint of the least value that has
\* at least half of them at or below it and the greatest value that has at
\* least half of them at or above it
IsMedianOf(m, numbers) ==
    \E lo \in Range(numbers), hi \in Range(numbers) :
        LET len == Len(numbers)
            AtOrBelow(v) == Cardinality({i \in 1..len : NumLessEq(numbers[i], v)})
            AtOrAbove(v) == Cardinality({i \in 1..len : NumLessEq(v, numbers[i])})
            lower == {v \in Range(numbers) : 2 * AtOrBelow(v) >= len}
            upper == {v \in Range(numbers) : 2 * AtOrAbove(v) >= len}
        IN  /\ lo \in lower /\ \A v \in lower : NumLessEq(lo, v)
            /\ hi \in upper /\ \A v \in upper : NumLessEq(v, hi)
            /\ 2 * m.n * lo.d * hi.d = m.d * (lo.n * hi.d + hi.n * lo.d)

\* C9: on a numeric column _fill_column puts the median of the non-null
\* values in place of every null and leaves the other cells as they are; when
\* every value is null, every cell becomes 0.
C9_NumericFill ==
    (col_pc = "filled" /\ is_numeric_dtype(series.dtype)) =>
        /\ Len(s_filled.cells) = Len(series.cells)
        /\ \A i \in 1..Len(series.cells) :
              IF IsNa(series.cells[i])
              THEN /\ IsNum(s_filled.cells[i])
                   /\ IF DropNa(series.cells) = <<>>
                      THEN s_filled.cells[i].n = 0
                      ELSE IsMedianOf(s_filled.cells[i], DropNa(series.cells))
              ELSE s_filled.cells[i] = series.cells[i]

C9_Witness ==
    /\ col_pc = "filled"
    /\ series.dtype = "float64"
    /\ \E i \in 1..Len(series.cells) : IsNa(series.cells[i])
    /\ Len(DropNa(series.cells)) = 4
    /\ Cardinality(Range(DropNa(series.cells))) = 3

\* C10: on a text column _fill_column never raises; it puts a most frequent
\* non-missing value of the column in place of every missing cell, and
\* "Unknown" when the column has no non-missing value or the mode cannot be
\* computed (an unhashable cell); the other cells stay as they are.
C10_TextFill ==
    (col_pc \in {"filled", "ValueError"} /\ series.dtype = "object") =>
        /\ col_pc = "filled"
        /\ Len(s_filled.cells) = Len(series.cells)
        /\ \A i \in 1..Len(series.cells) :
              IF _is_missing_value(series.cells[i])
              THEN IF NonMissingAt(series.cells) = {} \/ ModeRaises(series.cells)
                   THEN s_filled.cells[i] = Unknown
                   ELSE /\ \E j \in NonMissingAt(series.cells) :
                              s_filled.cells[i] = series.cells[j]
                        /\ \A j \in NonMissingAt(series.cells) :
                              Count(series.cells, series.cells[j])
                                 <= Count(series.cells, s_filled.cells[i])
              ELSE s_filled.cells[i] = series.cells[i]

\* _fill_column raised on a text column that holds a missing cell and a list
C10_Witness ==
    /\ col_pc = "ValueError"
    /\ series.dtype = "object"
    /\ \E i \in 1..Len(series.cells) : IsNa(series.cells[i])
    /\ \E i \in 1..Len(series.cells) : series.cells[i] = ListV(2)

\* C10 for the columns on which _fill_column returns: the fill is a most
\* frequent non-missing value, or "Unknown" when there is none or the mode
\* cannot be computed.
TextFillWhenReturned ==
    (col_pc = "filled" /\ series.dtype = "object") =>
        /\ Len(s_filled.cells) = Len(series.cells)
        /\ \A i \in 1..Len(series.cells) :
              IF _is_missing_value(series.cells[i])
              THEN IF NonMissingAt(series.cells) = {} \/ ModeRaises(series.cells)
                   THEN s_filled.cells[i] = Unknown
                   ELSE /\ \E j \in NonMissingAt(series.cells) :
                              s_filled.cells[i] = series.cells[j]
                        /\ \A j \in NonMissingAt(series.cells) :
                              Count(series.cells, series.cells[j])
                                 <= Count(series.cells, s_filled.cells[i])
              ELSE s_filled.cells[i] = series.cells[i]

\* C11: on a datetime column _fill_column puts the least non-null value of
\* the column in place of every null and leaves the other cells as they are;
\* when every value is null the column comes back with its nulls in place.
C11_DateFill ==
    (col_pc = "filled" /\ is_datetime64_any_dtype(series.dtype)) =>
        /\ Len(s_filled.cells) = Len(series.cells)
        /\ s_filled.dtype = series.dtype
        /\ \A i \in 1..Len(series.cells) :
              IF IsNa(series.cells[i])
              THEN IF \A j \in 1..Len(series.cells) : IsNa(series.cells[j])
                   THEN IsNa(s_filled.cells[i])
                   ELSE /\ \E j \in 1..Len(series.cells) :
                              s_filled.cells[i] = series.cells[j]
                        /\ s_filled.cells[i].k = "date"
                        /\ \A j \in 1..Len(series.cells) :
                              ~IsNa(series.cells[j]) =>
                                  s_filled.cells[i].n <= series.cells[j].n
              ELSE s_filled.cells[i] = series.cells[i]

\* a datetime column with a null whose first non-null value is not its least
C11_Witness ==
    /\ col_pc = "filled"
    /\ series.dtype = "datetime64"
    /\ \E i \in 1..Len(series.cells) : IsNa(series.cells[i])
    /\ Len(DropNa(series.cells)) >= 2
    /\ DropNa(series.cells)[1] = DateV(2)
    /\ \E i \in 1..Len(series.cells) : series.cells[i] = DateV(1)
    /\ \E i \in 1..Len(s_filled.cells) :
          IsNa(series.cells[i]) /\ s_filled.cells[i] = DateV(1)

-----------------------------------------------------------------------------
(* The scenario of the specification *)

\* the cell of the named column in the row labelled label
CellAt(t, name, label) ==
    LET col == CHOOSE c \in Range(t.columns) : c.name = name
        row == CHOOSE i \in 1..NRows(t) : t.index[i] = label
    IN  col.cells[row]

ScenarioCleaned == Returned /\ calls = 1 /\ df = DemoFrame /\ drop_dup

\* C8, as claimed: the scenario drops one duplicate, keeps 4 rows, fills the
\* null of "a" (row 2) with 1.5 and the null of "b" (row 1) with "x".
C8_ScenarioAsClaimed ==
    ScenarioCleaned =>
        /\ summary.dropped_duplicates = 1
        /\ summary.cleaned_rows = 4
        /\ CellAt(cleaned, "a", 2) = FloatV(3, 2)
        /\ CellAt(cleaned, "b", 1) = TextV(<<"x">>)

\* C8, amended: the scenario drops the duplicate row 4 and keeps rows 0..3;
\* the null of "a" (row 2) is filled with 2.0, the median of the values
\* {1,2,2} left after the duplicate is dropped, and the null of "b" (row 1)
\* with the mode "x".
C8_Scenario ==
    ScenarioCleaned =>
        /\ summary.dropped_duplicates = 1
        /\ summary.cleaned_rows = 4
        /\ cleaned.index = <<0, 1, 2, 3>>
        /\ CellAt(cleaned, "a", 2) = FloatV(2, 1)
        /\ CellAt(cleaned, "b", 1) = TextV(<<"x">>)

C8_Witness == ScenarioCleaned /\ NRows(cleaned) = 4 /\ summary.missing_after_total = 0

-----------------------------------------------------------------------------
(* Properties of analyze_missing_summary *)

\* the column of t with the given name
ColumnNamed(t, name) == CHOOSE c \in Range(t.columns) : c.name = name

\* the positions of the cells of a column that are not missing and fail the
\* numeric parse
UnparsedAt(cells) == NonMissingAt(cells) \ ParsedAt(cells)

\* C12: in the profiles of a summarized table, missing_count is the number of
\* missing cells of the column; type_issues is the number of non-missing
\* cells that fail the numeric parse when the column is a text column
\* classified numeric, and 0 for every other column; total_issues is their
\* sum. Every column has exactly one profile.
C12_ProfileCounts ==
    Returned =>
        /\ Len(summary.missing_summary_before) = NCols(df)
        /\ \A c \in 1..NCols(df) :
              \E k \in 1..NCols(df) :
                  summary.missing_summary_before[k].column = df.columns[c].name
        /\ \A k \in 1..Len(summary.missing_summary_before) :
              LET profile == summary.missing_summary_before[k]
                  col == ColumnNamed(df, profile.column)
                  flagged == /\ col.dtype = "object"
                             /\ NonMissingAt(col.cells) # {}
                             /\ 100 * Cardinality(ParsedAt(col.cells))
                                   > 80 * Cardinality(NonMissingAt(col.cells))
              IN  /\ profile.missing_count =
                        Cardinality((1..Len(col.cells)) \ NonMissingAt(col.cells))
                  /\ profile.type_issues =
                        IF flagged THEN Cardinality(UnparsedAt(col.cells)) ELSE 0
                  /\ profile.total_issues = profile.missing_count + profile.type_issues

\* a profile with both missing cells and type issues
C12_Witness ==
    /\ Returned
    /\ calls = 1
    /\ \E k \in 1..Len(summary.missing_summary_before) :
          /\ summary.missing_summary_before[k].type_issues > 0
          /\ summary.missing_summary_before[k].missing_count > 0

\* an unparsed cell in a text column that is not classified numeric counts
\* as no type issue
C12_WitnessUnflagged ==
    /\ Returned
    /\ calls = 1
    /\ \E k \in 1..Len(summary.missing_summary_before) :
          /\ summary.missing_summary_before[k].type_issues = 0
          /\ UnparsedAt(ColumnNamed(df, summary.missing_summary_before[k].column).cells) # {}

\* sort_result holds the rows of sort_rows, each once
IsReordering ==
    /\ Len(sort_result) = Len(sort_rows)
    /\ \A i \in 1..Len(sort_rows) : \E k \in 1..Len(sort_result) : sort_result[k] = sort_rows[i]

\* C13: the profiles are ordered by descending total_issues, and profiles of
\* equal total_issues keep the order of their columns.
C13_SortedStable ==
    sort_pc = "sorted" =>
        /\ IsReordering
        /\ \A k \in 1..Len(sort_result) : \A l \in (k + 1)..Len(sort_result) :
              /\ sort_result[k].total_issues >= sort_result[l].total_issues
              /\ sort_result[k].total_issues = sort_result[l].total_issues =>
                    sort_result[k].column < sort_result[l].column

\* two profiles of equal total_issues came out against the order of their
\* columns
C13_Witness ==
    /\ sort_pc = "sorted"
    /\ \E k \in 1..Len(sort_result) : \E l \in (k + 1)..Len(sort_result) :
          /\ sort_result[k].total_issues = sort_result[l].total_issues
          /\ sort_result[k].column > sort_result[l].column

\* C13 without the order of ties: the profiles are a reordering of the rows
\* by descending total_issues, and ties keep their order when the rows are at
\* most InsertionSortMaxLen
SortedDescending ==
    sort_pc = "sorted" =>
        /\ IsReordering
        /\ \A k \in 1..Len(sort_result) : \A l \in (k + 1)..Len(sort_result) :
              /\ sort_result[k].total_issues >= sort_result[l].total_issues
              /\ (/\ Len(sort_rows) <= InsertionSortMaxLen
                  /\ sort_result[k].total_issues = sort_result[l].total_issues) =>
                    sort_result[k].column < sort_result[l].column

-----------------------------------------------------------------------------
(* Properties of the summary of clean_dataframe *)

\* C14: every "after" profile of the summary has missing_count, type_issues,
\* total_issues and missing_pct equal to 0, whatever the cleaned table holds;
\* there is one "after" profile for each column of the cleaned table.
C14_AfterProfilesZeroed ==
    Returned =>
        /\ Len(summary.missing_summary_after) = NCols(cleaned)
        /\ \A c \in 1..NCols(cleaned) :
              \E k \in 1..Len(summary.missing_summary_after) :
                  summary.missing_summary_after[k].column = cleaned.columns[c].name
        /\ \A k \in 1..Len(summary.missing_summary_after) :
              /\ summary.missing_summary_after[k].missing_count = 0
              /\ summary.missing_summary_after[k].type_issues = 0
              /\ summary.missing_summary_after[k].total_issues = 0
              /\ summary.missing_summary_after[k].missing_pct = 0

\* the cleaned table still holds cells that count as missing, and its
\* profile reports none
C14_Witness ==
    /\ Returned
    /\ \E c \in 1..NCols(cleaned) :
          /\ MissingCount(cleaned.columns[c].cells) > 0
          /\ \E k \in 1..Len(summary.missing_summary_after) :
                /\ summary.missing_summary_after[k].column = cleaned.columns[c].name
                /\ summary.missing_summary_after[k].missing_count = 0

-----------------------------------------------------------------------------
(* Errors of clean_dataframe *)

\* C15: clean_dataframe raises TypeError when its argument is not a
\* DataFrame, and only then; it raises before any step of the cleaning: no
\* classification, no copy, no summary, and nothing is returned.
C15_TypeErrorFirst ==
    calls > 0 =>
        /\ outcome = "TypeError" <=> df.class # "DataFrame"
        /\ outcome = "TypeError" =>
              /\ work = <<>>
              /\ summary = <<>>
              /\ cleaned = NoColumnsFrame

C15_Witness ==
    /\ calls = 1
    /\ outcome = "TypeError"
    /\ df.class = "dict"

\* C16: for every argument that is a DataFrame, with or without rows or
\* columns, clean_dataframe returns a (table, summary) pair and raises
\* nothing.
C16_TablesNeverRaise ==
    (calls > 0 /\ IsDataFrame(df)) => outcome = "returned"

\* clean_dataframe raised on a DataFrame without columns
C16_Witness ==
    /\ calls = 1
    /\ df = NoColumnsFrame
    /\ outcome = "KeyError"
    /\ work = <<"classify">>

-----------------------------------------------------------------------------
(* Effects of clean_dataframe on its argument *)

\* C17: clean_dataframe does not change its argument: when the call has
\* returned or raised, the caller's table has the cells, the rows (with their
\* labels) and the columns (names, types, order) it had before the call.
C17_InputNotMutated ==
    calls > 0 => df_after = df

\* a call that replaced placeholders, dropped a row and filled cells of its
\* working table
C17_Witness ==
    /\ Returned
    /\ df_after = df
    /\ \E v \in AllCells(df) : v.k = "text" /\ _is_missing_value(v)
    /\ summary.dropped_duplicates > 0
    /\ AllCells(cleaned) # AllCells(df)

-----------------------------------------------------------------------------
(* Properties of POST /process *)

\* the request got through saving, cleaning and report generation
CleanedAndReported(req) ==
    req.csv /\ req.save_ok /\ req.clean = "ok" /\ req.report_ok

\* C18: whenever cleaning and report generation succeeded, the response is
\* 200 with the cleaning summary, whether the store is configured or not,
\* whether the client could be had and whether the insert succeeded; the
\* response is 200 only then.
C18_StoreFailureNeverAborts ==
    requests > 0 =>
        /\ CleanedAndReported(request) =>
              response = [status_code |-> 200, content |-> "summary"]
        /\ response.status_code = 200 => CleanedAndReported(request)

\* a 200 response although the store is configured and the write failed:
\* pymongo missing, the client not created, or the insert raising
C18_Witness ==
    /\ requests > 0
    /\ response.status_code = 200
    /\ MONGODB_URI
    /\ clean_runs = 0
    /\ \/ ~MongoClient
       \/ _CLIENT = None /\ ~request.create_ok
       \/ _CLIENT # None /\ ~request.insert_ok

-----------------------------------------------------------------------------
(* Properties of the duplicate removal of clean_dataframe *)

\* row i of df is in the returned table
Kept(i) == df.index[i] \in Range(cleaned.index)

\* the position in df of the row labelled label
PositionOf(label) == CHOOSE i \in 1..NRows(df) : df.index[i] = label

\* the returned rows are rows of df, in the order they have in df
KeptInOrder ==
    /\ \A k \in 1..NRows(cleaned) : cleaned.index[k] \in Range(df.index)
    /\ \A k \in 1..NRows(cleaned) : \A l \in (k + 1)..NRows(cleaned) :
          PositionOf(cleaned.index[k]) < PositionOf(cleaned.index[l])

\* rows i and j of df are equal once placeholder texts count as nulls
SameRowAfterReplacement(i, j) ==
    \A c \in 1..NCols(df) :
        SameAfterReplacement(df.columns[c].cells[i], df.columns[c].cells[j])

\* C19, as claimed: with duplicate removal enabled, of each group of
\* identical rows of the input the first one, and only the first one, is in
\* the returned table, and the returned rows keep their relative order.
C19_FirstOfIdenticalRowsKept ==
    (Returned /\ drop_dup) =>
        /\ KeptInOrder
        /\ \A i \in 1..NRows(df) :
              LET first == CHOOSE j \in 1..i :
                              /\ Row(df, j) = Row(df, i)
                              /\ \A h \in 1..(j - 1) : Row(df, h) # Row(df, i)
              IN  Kept(first) /\ (Kept(i) => i = first)

\* C19, amended: with duplicate removal enabled, of each group of rows that
\* are identical once placeholder texts count as nulls the first one, and
\* only the first one, is in the returned table, and the returned rows keep
\* their relative order.
C19_FirstOfGroupKept ==
    (Returned /\ drop_dup) =>
        /\ KeptInOrder
        /\ \A i \in 1..NRows(df) :
              LET first == CHOOSE j \in 1..i :
                              /\ SameRowAfterReplacement(j, i)
                              /\ \A h \in 1..(j - 1) : ~SameRowAfterReplacement(h, i)
              IN  Kept(first) /\ (Kept(i) => i = first)

\* a dropped row between two returned rows, the first of which it repeats
C19_Witness ==
    /\ Returned
    /\ drop_dup
    /\ \E i \in 1..NRows(df), j \in 1..NRows(df), k \in 1..NRows(df) :
          /\ i < j /\ j < k
          /\ Row(df, i) = Row(df, j)
          /\ Kept(i) /\ ~Kept(j) /\ Kept(k)

-----------------------------------------------------------------------------
(* Properties of _replace_placeholders *)

\* the text, lowercased and trimmed, is a placeholder
IsPlaceholderText(v) ==
    /\ v.k = "text"
    /\ \E placeholder \in PLACEHOLDER_VALUES : MatchesPlaceholder(v.s, placeholder)

\* C20: _replace_placeholders returns a table of the same rows and columns
\* in which, in every text-typed (object) column, each text cell that matches
\* a placeholder is null and every other cell is as it was; the cells of
\* numeric and datetime columns are as they were; no text cell of a text-typed
\* column of the result is missing.
C20_ReplacePlaceholders ==
    replace_pc = "returned" =>
        /\ replaced.index = df.index
        /\ NCols(replaced) = NCols(df)
        /\ \A c \in 1..NCols(df) :
              LET before == df.columns[c]
                  after == replaced.columns[c]
              IN  /\ after.name = before.name
                  /\ after.dtype = before.dtype
                  /\ Len(after.cells) = Len(before.cells)
                  /\ \A i \in 1..Len(before.cells) :
                        IF before.dtype = "object" /\ IsPlaceholderText(before.cells[i])
                        THEN after.cells[i] = Null
                        ELSE after.cells[i] = before.cells[i]
                  /\ before.dtype = "object" =>
                        \A i \in 1..Len(after.cells) :
                            after.cells[i].k = "text" => ~_is_missing_value(after.cells[i])

\* a call on a frame whose text column holds a placeholder with whitespace
\* and lower case, a placeholder in upper case and a word or a number, next
\* to a native column with a null
C20_Witness ==
    /\ replace_pc = "returned"
    /\ NCols(df) = 2
    /\ df.columns[2].dtype # "object"
    /\ Null \in Range(df.columns[2].cells)
    /\ {NA, TextV(<<" ", "n", "a">>)} \subseteq Range(df.columns[1].cells)
    /\ Range(df.columns[1].cells) \cap {TextV(<<"x">>), IntV(1)} # {}
    /\ replaced # df

-----------------------------------------------------------------------------
(* Properties of the numeric coercion of clean_dataframe *)

\* the number v has the value the numeral chars writes
HasValueOf(v, chars) ==
    /\ IsNum(v)
    /\ v.n * NumeralValue(chars).d = NumeralValue(chars).n * v.d

\* the cell after the coercion of the text cell before: its number when it
\* parses, null when it does not
CoercedFrom(after, before) ==
    IF before.k = "text" /\ IsNumeral(Strip(before.s))
    THEN HasValueOf(after, Strip(before.s))
    ELSE IF IsNum(before) THEN after = before
    ELSE IsNa(after)

\* C21: the coercion loop returns normally; in each column that is flagged
\* numeric and stored as text every cell that parses holds its number and
\* every other cell is null, and the column has a numeric type; every column
\* that is not flagged has its cells and its type as before the loop.
C21_CoerceFlaggedTextColumns ==
    Returned =>
        /\ stages.coerced.index = stages.deduplicated.index
        /\ NCols(stages.coerced) = NCols(stages.deduplicated)
        /\ \A c \in 1..NCols(stages.deduplicated) :
              LET before == stages.deduplicated.columns[c]
                  after == stages.coerced.columns[c]
              IN  /\ after.name = before.name
                  /\ IF before.name \in stages.numeric_cols_to_fix
                     THEN before.dtype = "object" =>
                            /\ after.dtype \in {"int64", "float64"}
                            /\ Len(after.cells) = Len(before.cells)
                            /\ \A i \in 1..Len(before.cells) :
                                  CoercedFrom(after.cells[i], before.cells[i])
                     ELSE after = before

\* a flagged text column with a cell that parses and a cell that does not
C21_Witness ==
    /\ Returned
    /\ calls = 1
    /\ \E c \in 1..NCols(stages.deduplicated) :
          LET before == stages.deduplicated.columns[c]
              after == stages.coerced.columns[c]
          IN  /\ before.name \in stages.numeric_cols_to_fix
              /\ before.dtype = "object"
              /\ \E i \in 1..Len(before.cells) :
                    before.cells[i] = TextV(<<"x">>) /\ IsNa(after.cells[i])
              /\ \E i \in 1..Len(before.cells) :
                    before.cells[i] = TextV(<<"2">>) /\ after.cells[i] = FloatV(2, 1)

\* a text column that is not flagged, next to a column of a native type
C21_WitnessUnflagged ==
    /\ Returned
    /\ calls = 1
    /\ NCols(stages.deduplicated) = 2
    /\ stages.deduplicated.columns[1].name \notin stages.numeric_cols_to_fix
    /\ \E v \in Range(stages.deduplicated.columns[1].cells) : FloatParses(v)
    /\ \E v \in Range(stages.deduplicated.columns[1].cells) : v = TextV(<<"x">>)

\* the column is a text column that more than 80% of its non-missing cells
\* parse in
ClassifiedOn(col) ==
    /\ NonMissingAt(col.cells) # {}
    /\ 100 * Cardinality(ParsedAt(col.cells)) > 80 * Cardinality(NonMissingAt(col.cells))

\* C22: the columns that the coercion loop converts are the text columns
\* classified numeric on the original table: the classification is that of
\* step 1, not one of the rows left after placeholder replacement and
\* duplicate removal.
C22_CoercionUsesFirstClassification ==
    Returned =>
        /\ stages.numeric_cols_to_fix =
              {df.columns[c].name : c \in {x \in 1..NCols(df) : ClassifiedOn(df.columns[x])}}
        /\ \A c \in 1..NCols(df) :
              (/\ stages.deduplicated.columns[c].dtype = "object"
               /\ stages.coerced.columns[c].dtype # "object")
              <=> (df.columns[c].dtype = "object" /\ ClassifiedOn(df.columns[c]))

\* a column classified numeric on the original rows and coerced, although
\* 80% or less of its cells parse among the rows left after deduplication
C22_Witness ==
    /\ Returned
    /\ calls = 1
    /\ drop_dup
    /\ \E c \in 1..NCols(df) :
          /\ ClassifiedOn(df.columns[c])
          /\ ~ClassifiedOn(stages.deduplicated.columns[c])
          /\ stages.deduplicated.columns[c].dtype = "object"
          /\ stages.coerced.columns[c].dtype = "float64"

-----------------------------------------------------------------------------
(* The tie-break of the mode in _fill_column *)

\* the positions of the non-missing cells whose value is as frequent as any
MostFrequentAt(cells) ==
    {i \in NonMissingAt(cells) :
        \A j \in NonMissingAt(cells) : Count(cells, cells[j]) <= Count(cells, cells[i])}

\* a text column, returned by _fill_column, that has missing cells and whose
\* other cells are text
TextColumnFilled ==
    /\ col_pc = "filled"
    /\ series.dtype = "object"
    /\ NonMissingAt(series.cells) # {}
    /\ NonMissingAt(series.cells) # 1..Len(series.cells)
    /\ \A i \in NonMissingAt(series.cells) : series.cells[i].k = "text"

\* C23, as claimed: when several values of a text column are tied for most
\* frequent, every missing cell is filled with the tied value met first in
\* row order.
C23_FirstEncounteredOfTies ==
    TextColumnFilled =>
        LET first == CHOOSE i \in MostFrequentAt(series.cells) :
                        \A j \in MostFrequentAt(series.cells) : i <= j
        IN  \A i \in 1..Len(series.cells) :
                _is_missing_value(series.cells[i]) => s_filled.cells[i] = series.cells[first]

\* C23, amended: when several values of a text column are tied for most
\* frequent, every missing cell is filled with the tied value that sorts
\* first (the least in code point order), wherever it stands in the column.
C23_LeastOfTies ==
    TextColumnFilled =>
        \A i \in 1..Len(series.cells) :
            _is_missing_value(series.cells[i]) =>
                /\ \E j \in MostFrequentAt(series.cells) : s_filled.cells[i] = series.cells[j]
                /\ \A j \in MostFrequentAt(series.cells) :
                      ~TextLess(series.cells[j].s, s_filled.cells[i].s)

\* a tie of "x" and "1" in which "x" is met first and "1" is the fill
C23_Witness ==
    /\ TextColumnFilled
    /\ Cardinality({series.cells[i] : i \in MostFrequentAt(series.cells)}) = 2
    /\ series.cells[CHOOSE i \in NonMissingAt(series.cells) :
                       \A j \in NonMissingAt(series.cells) : i <= j] = TextV(<<"x">>)
    /\ \E i \in 1..Len(series.cells) :
          _is_missing_value(series.cells[i]) /\ s_filled.cells[i] = TextV(<<"1">>)

-----------------------------------------------------------------------------
(* Properties of the profiles of analyze_missing_summary *)

Min2(a, b) == IF a < b THEN a ELSE b

\* the non-missing cells of the column that are one value
ValueClasses(cells) ==
    {{j \in NonMissingAt(cells) : SameValue(cells[i], cells[j])} : i \in NonMissingAt(cells)}

\* the position of the first non-missing cell that is the sample
FirstSeenAt(cells, sample) ==
    CHOOSE i \in NonMissingAt(cells) :
        /\ cells[i] = sample
        /\ \A j \in NonMissingAt(cells) : cells[j] = sample => i <= j

C24_WitnessCapped ==
    /\ analyze_pc = "returned"
    /\ \E k \in 1..Len(profiles) :
          /\ profiles[k].unique_count > top_values_default
          /\ Len(profiles[k].sample_values) = top_values_default

AllText(cells) == \A i \in NonMissingAt(cells) : cells[i].k = "text"

-----------------------------------------------------------------------------
(* Identical rows in the table clean_dataframe returns *)

NoTwoRowsIdentical(t) ==
    \A k \in 1..NRows(t) : \A l \in (k + 1)..NRows(t) : Row(t, k) # Row(t, l)

\* C25, as claimed: with duplicate removal enabled the returned table holds
\* no two identical rows.
C25_NoIdenticalRowsReturned ==
    (Returned /\ drop_dup) => NoTwoRowsIdentical(cleaned)

\* C25, amended: with duplicate removal enabled the table holds no two
\* identical rows when the duplicate removal is done, before coercion and
\* imputation, and the rows returned are those rows; two of them can be
\* identical in the returned table.
C25_NoIdenticalRowsBeforeCoercion ==
    (Returned /\ drop_dup) =>
        /\ NoTwoRowsIdentical(stages.deduplicated)
        /\ cleaned.index = stages.deduplicated.index

\* a row was dropped as a duplicate, and two of the rows returned are
\* identical: a null filled with the value of the other row
C25_Witness ==
    /\ Returned
    /\ drop_dup
    /\ calls = 1
    /\ summary.dropped_duplicates > 0
    /\ NoTwoRowsIdentical(stages.deduplicated)
    /\ ~NoTwoRowsIdentical(cleaned)

-----------------------------------------------------------------------------
(* The total of the summary and its "before" profiles *)

\* C26: missing_before_total of the summary is the sum of total_issues over
\* the "before" profiles of the same summary.
C26_TotalIsSumOfProfiles ==
    Returned =>
        summary.missing_before_total
            = Sum(MapSeq(LAMBDA profile : profile.total_issues,
                         summary.missing_summary_before))

\* a summary whose profile counts a placeholder text and a type issue
C26_Witness ==
    /\ Returned
    /\ calls = 1
    /\ \E v \in AllCells(df) : v.k = "text" /\ _is_missing_value(v)
    /\ \E k \in 1..Len(summary.missing_summary_before) :
          summary.missing_summary_before[k].type_issues > 0
    /\ summary.missing_before_total = 2

-----------------------------------------------------------------------------
(* The columns classified numeric, in the table clean_dataframe returns *)

\* C27: in the returned table every cell of a column classified numeric on
\* the original table is a number; where the cell of the original row is
\* missing or fails the parse, it is the median of the numbers of the column
\* in the retained rows, or 0 when there is none.
C27_ClassifiedColumnsHoldNumbers ==
    Returned =>
        \A c \in 1..NCols(df) :
            ClassifiedOn(df.columns[c]) =>
                LET numbers == DropNa(stages.coerced.columns[c].cells)
                IN  \A k \in 1..NRows(cleaned) :
                        LET before == df.columns[c].cells[PositionOf(cleaned.index[k])]
                            after == cleaned.columns[c].cells[k]
                        IN  /\ IsNum(after)
                            /\ (_is_missing_value(before) \/ ~FloatParses(before)) =>
                                  IF numbers = <<>> THEN after.n = 0
                                  ELSE IsMedianOf(after, numbers)

\* a text column classified numeric with a placeholder and a cell that fails
\* the parse, both filled with the median of the other cells
C27_Witness ==
    /\ Returned
    /\ calls = 1
    /\ \E c \in 1..NCols(df) :
          /\ df.columns[c].dtype = "object"
          /\ ClassifiedOn(df.columns[c])
          /\ \E k \in 1..NRows(cleaned) :
                /\ df.columns[c].cells[PositionOf(cleaned.index[k])] = TextV(<<"x">>)
                /\ IsNum(cleaned.columns[c].cells[k])
          /\ \E k \in 1..NRows(cleaned) :
                /\ df.columns[c].cells[PositionOf(cleaned.index[k])] = NA
                /\ IsNum(cleaned.columns[c].cells[k])

-----------------------------------------------------------------------------
(* What clean_dataframe leaves as it is *)

\* the cell after holds the value of the cell before: the cell itself, or the
\* number a text cell writes
KeepsValue(after, before) ==
    IF before.k = "text" THEN HasValueOf(after, Strip(before.s))
    ELSE SameValue(after, before)

\* C28: the returned table has the columns of the input, by name and in
\* order; in every retained row a cell that is not missing in the input
\* holds the same value in the output when its column is not classified
\* numeric, and its parsed number when the column is classified numeric and
\* the cell parses.
C28_OnlyMissingOrUnparsedCellsChange ==
    Returned =>
        /\ NCols(cleaned) = NCols(df)
        /\ \A c \in 1..NCols(df) :
              /\ cleaned.columns[c].name = df.columns[c].name
              /\ \A k \in 1..NRows(cleaned) :
                    LET before == df.columns[c].cells[PositionOf(cleaned.index[k])]
                        after == cleaned.columns[c].cells[k]
                    IN  ~_is_missing_value(before) =>
                            IF ClassifiedOn(df.columns[c])
                            THEN FloatParses(before) => KeepsValue(after, before)
                            ELSE after = before

\* a table of two columns whose text column is not classified numeric: it
\* holds a numeral and a word that are returned as they are, and a missing
\* cell that is filled
C28_Witness ==
    /\ Returned
    /\ calls = 1
    /\ NCols(df) = 2
    /\ ~ClassifiedOn(df.columns[1])
    /\ \E i \in 1..NRows(df) : _is_missing_value(df.columns[1].cells[i]) /\ Kept(i)
    /\ {TextV(<<"x">>), TextV(<<"1">>)} \subseteq Range(cleaned.columns[1].cells)
    /\ \A v \in Range(cleaned.columns[1].cells) : ~_is_missing_value(v)

-----------------------------------------------------------------------------
(* Properties of get_mongo_client under concurrent calls *)

\* C30: whatever the interleaving of the calls of concurrent threads, at
\* most one client is created in the process and every call that returns a
\* client returns the same one; when MONGODB_URI is unset no client is
\* created and every call returns None.
C30_OneClientPerProcess ==
    /\ clients_created <= 1
    /\ Cardinality(handed_out) <= 1
    /\ ~MONGODB_URI =>
          /\ clients_created = 0
          /\ \A t \in Threads : thread_got[t] = None

\* two threads found the cache empty, each made a client, and their calls
\* returned different clients
C30_Witness ==
    /\ clients_created = 2
    /\ thread_pc = [t \in Threads |-> "idle"]
    /\ thread_got[1] # thread_got[2]
    /\ {thread_got[1], thread_got[2]} \subseteq handed_out

\* the part of C30 that every interleaving keeps: without MONGODB_URI no
\* client is made and every call returns None.
NoClientWithoutUri ==
    ~MONGODB_URI =>
        /\ clients_created = 0
        /\ handed_out = {}
        /\ \A t \in Threads : thread_got[t] = None

====
